---- MODULE Spec2Model ----
(***************************************************************************)
(* Model of the VSS ingestion pipeline: the stream-socket listener         *)
(* (VssSocketComm), its read thread and framer (readLoop / readMessage),   *)
(* and the ingestion orchestrator (VssVehicleEmulator).                    *)
(*                                                                         *)
(* Two program threads are modelled: "caller" (the thread that calls       *)
(* start/stop/initialize/shutdown/processVssMessage) and "reader" (the     *)
(* std::thread running readLoop).  Peers and the kernel's socket layer are *)
(* the environment.  File descriptors of accepted sockets are the          *)
(* connection numbers 1..MaxPeers; the listening socket is descriptor 0;   *)
(* -1 is the "no socket" value of the code.                                *)
(***************************************************************************)
EXTENDS Integers, Sequences, FiniteSets, TLC

\* ------------------------------------------------------------------ bounds
\* Number of peers that ever connect.
MaxPeers == 2
\* Number of start() calls and of stop() calls made on one listener.
MaxStarts == 3
MaxStops == 2
\* Number of initialize() calls and of shutdown() calls made on the emulator.
MaxInits == 2
MaxShutdowns == 1
\* Length of the byte streams enumerated in the framing specification.
MaxLen == 4
\* Length of the messages enumerated in the message-format specification.
MaxMsgLen == 3
\* Number of direct processVssMessage() calls the caller makes.
MaxCalls == 2
\* Length of the value texts enumerated in the conversion specifications.
MaxTextLen == 3
\* Number of writes made to the store entry that a client reads.
MaxWrites == 3
\* Number of receive timeouts counted while a partial record is held.
MaxTimeouts == 2

\* ------------------------------------------------------------- characters
NL == "\n"
EQ == "="
SP == " "
\* The trim set " \t\r\n" of the code; the model's streams use SP and NL.
Whitespace == {SP, "\t", "\r", NL}

Threads == {"caller", "reader"}
\* The threads that read the property store.
Clients == {"client1", "client2"}
Conns == 1..MaxPeers

\* ---------------------------------------------------------- string helpers
\* std::string::find(ch): position of the first ch, 1-based; 0 stands for npos.
RECURSIVE FindFrom(_, _, _)
FindFrom(s, ch, i) ==
    IF i > Len(s) THEN 0
    ELSE IF s[i] = ch THEN i
    ELSE FindFrom(s, ch, i + 1)

Find(s, ch) == FindFrom(s, ch, 1)

\* find_last_not_of(" \t\r\n"): 1-based position, 0 for npos.
RECURSIVE LastNotOf(_, _)
LastNotOf(s, i) ==
    IF i = 0 THEN 0
    ELSE IF s[i] \notin Whitespace THEN i
    ELSE LastNotOf(s, i - 1)

\* find_first_not_of(" \t\r\n"): 1-based position, 0 for npos.
RECURSIVE FirstNotOf(_, _)
FirstNotOf(s, i) ==
    IF i > Len(s) THEN 0
    ELSE IF s[i] \notin Whitespace THEN i
    ELSE FirstNotOf(s, i + 1)

\* s.erase(s.find_last_not_of(ws) + 1): with npos + 1 == 0 everything goes.
TrimRight(s) == SubSeq(s, 1, LastNotOf(s, Len(s)))

\* s.erase(0, s.find_first_not_of(ws)): with npos everything goes.
TrimLeft(s) ==
    IF FirstNotOf(s, 1) = 0 THEN << >>
    ELSE SubSeq(s, FirstNotOf(s, 1), Len(s))

\* The code trims the right end first, then the left end.
Trim(s) == TrimLeft(TrimRight(s))

IsPrefix(s, t) == Len(s) <= Len(t) /\ SubSeq(t, 1, Len(s)) = s

\* All sequences over alphabet A of length at most n.
RECURSIVE SeqsUpTo(_, _)
SeqsUpTo(A, n) ==
    IF n = 0 THEN {<< >>}
    ELSE LET S == SeqsUpTo(A, n - 1)
         IN  S \cup {Append(s, c) : s \in {x \in S : Len(x) = n - 1}, c \in A}

\* ------------------------------------------------------------------ framer
\* The loop body without the erase of trailing whitespace: the text before
\* the newline is returned as it is.
FrameDataUntrimmed(message, chunk) ==
    LET m == message \o chunk
        newline_pos == Find(m, NL)
    IN  IF newline_pos = 0
        THEN [ret |-> FALSE, out |-> << >>, message |-> m]
        ELSE LET complete_message == SubSeq(m, 1, newline_pos - 1)
                 rest == SubSeq(m, newline_pos + 1, Len(m))
             IN  [ret |-> complete_message # << >>,
                  out |-> complete_message,
                  message |-> rest]

\* The loop body with `message = buffer` for `message += buffer`: what an
\* earlier recv returned is forgotten.
FrameDataForgetful(message, chunk) ==
    LET m == chunk
        newline_pos == Find(m, NL)
    IN  IF newline_pos = 0
        THEN [ret |-> FALSE, out |-> << >>, message |-> m]
        ELSE LET complete_message == TrimRight(SubSeq(m, 1, newline_pos - 1))
                 rest == SubSeq(m, newline_pos + 1, Len(m))
             IN  [ret |-> complete_message # << >>,
                  out |-> complete_message,
                  message |-> rest]

\* One pass of readMessage's loop body for bytes_read > 0: the received bytes
\* are appended to the local string `message`; at the first newline the text
\* before it is cut out and right-trimmed.  ret says that readMessage returns
\* `out`; otherwise the loop goes on with `message` as the rest.
FrameData(message, chunk) ==
    LET m == message \o chunk
        newline_pos == Find(m, NL)
    IN  IF newline_pos = 0
        THEN [ret |-> FALSE, out |-> << >>, message |-> m]
        ELSE LET complete_message == TrimRight(SubSeq(m, 1, newline_pos - 1))
                 rest == SubSeq(m, newline_pos + 1, Len(m))
             IN  [ret |-> complete_message # << >>,
                  out |-> complete_message,
                  message |-> rest]

\* ----------------------------------------------------------- message parser
\* The last position of ch in s, 0 when there is none.
FindLast(s, ch) ==
    IF \E i \in 1..Len(s) : s[i] = ch
    THEN CHOOSE i \in 1..Len(s) : s[i] = ch /\ \A j \in (i + 1)..Len(s) : s[j] # ch
    ELSE 0

\* parseVssMessage splitting at the last '=' (rfind) instead of the first.
parseVssMessageAtLastEquals(message) ==
    LET equals_pos == FindLast(message, EQ)
    IN  IF equals_pos = 0 \/ equals_pos = 1 \/ equals_pos = Len(message)
        THEN [ok |-> FALSE, vssPath |-> << >>, vssValue |-> << >>]
        ELSE LET vssPath == Trim(SubSeq(message, 1, equals_pos - 1))
                 vssValue == Trim(SubSeq(message, equals_pos + 1, Len(message)))
             IN  [ok |-> vssPath # << >> /\ vssValue # << >>,
                  vssPath |-> vssPath,
                  vssValue |-> vssValue]

\* parseVssMessage without its final check of the trimmed halves.
parseVssMessageUntrimmedCheck(message) ==
    LET equals_pos == Find(message, EQ)
    IN  IF equals_pos = 0 \/ equals_pos = 1 \/ equals_pos = Len(message)
        THEN [ok |-> FALSE, vssPath |-> << >>, vssValue |-> << >>]
        ELSE [ok |-> TRUE,
              vssPath |-> Trim(SubSeq(message, 1, equals_pos - 1)),
              vssValue |-> Trim(SubSeq(message, equals_pos + 1, Len(message)))]

\* parseVssMessage: split at the first '='; npos, position 0 and the last
\* position are rejected; both halves are trimmed and must be non-empty.
parseVssMessage(message) ==
    LET equals_pos == Find(message, EQ)
    IN  IF equals_pos = 0 \/ equals_pos = 1 \/ equals_pos = Len(message)
        THEN [ok |-> FALSE, vssPath |-> << >>, vssValue |-> << >>]
        ELSE LET vssPath == Trim(SubSeq(message, 1, equals_pos - 1))
                 vssValue == Trim(SubSeq(message, equals_pos + 1, Len(message)))
             IN  [ok |-> vssPath # << >> /\ vssValue # << >>,
                  vssPath |-> vssPath,
                  vssValue |-> vssValue]

\* -------------------------------------------------------- conversion engine
\* ConverterUtils as its header and the specification describe it.  Texts
\* are sequences of characters.  A result is [ok, value]; ok = FALSE is the
\* std::invalid_argument (or std::out_of_range) the function throws.
DigitChars == <<"0", "1", "2", "3", "4", "5", "6", "7", "8", "9">>

IsDigit(c) == \E d \in 1..10 : DigitChars[d] = c

DigitOf(c) == (CHOOSE d \in 1..10 : DigitChars[d] = c) - 1

AllDigits(s) == \A i \in 1..Len(s) : IsDigit(s[i])

\* ConverterUtils::toLower, on the letters of the boolean literals.
toLowerChar(c) ==
    CASE c = "T" -> "t" [] c = "R" -> "r" [] c = "U" -> "u" [] c = "E" -> "e"
      [] c = "F" -> "f" [] c = "A" -> "a" [] c = "L" -> "l" [] c = "S" -> "s"
      [] c = "Y" -> "y" [] c = "O" -> "o" [] c = "N" -> "n"
      [] OTHER -> c

toLower(str) == [i \in 1..Len(str) |-> toLowerChar(str[i])]

\* stringToBool that looks at the first character only.
stringToBoolByFirstChar(str) ==
    LET s == toLower(Trim(str))
    IN  IF s = <<"o", "n">> \/ (s # << >> /\ s[1] \in {"t", "1", "y"})
        THEN [ok |-> TRUE, value |-> TRUE]
        ELSE IF s # << >> /\ s[1] \in {"f", "0", "n", "o"}
        THEN [ok |-> TRUE, value |-> FALSE]
        ELSE [ok |-> FALSE, value |-> FALSE]

\* ConverterUtils::stringToBool: "true"/"false", "1"/"0", "yes"/"no",
\* "on"/"off", case-insensitive; everything else throws.
stringToBool(str) ==
    LET s == toLower(Trim(str))
    IN  IF s \in {<<"t", "r", "u", "e">>, <<"1">>, <<"y", "e", "s">>, <<"o", "n">>}
        THEN [ok |-> TRUE, value |-> TRUE]
        ELSE IF s \in {<<"f", "a", "l", "s", "e">>, <<"0">>, <<"n", "o">>,
                       <<"o", "f", "f">>}
        THEN [ok |-> TRUE, value |-> FALSE]
        ELSE [ok |-> FALSE, value |-> FALSE]

\* ConverterUtils::isIntString: an optional '-' and at least one digit.
isIntString(str) ==
    /\ str # << >>
    /\ LET digits == IF str[1] = "-" THEN Tail(str) ELSE str
       IN  digits # << >> /\ AllDigits(digits)

\* The digits of an integer text without sign and leading zeros.
RECURSIVE StripZeros(_)
StripZeros(d) ==
    IF Len(d) > 1 /\ d[1] = "0" THEN StripZeros(Tail(d)) ELSE d

Magnitude(str) == StripZeros(IF str[1] = "-" THEN Tail(str) ELSE str)

IsNegative(str) == str[1] = "-" /\ Magnitude(str) # <<"0">>

\* a <= b for two digit sequences without leading zeros.
RECURSIVE DigitsLeq(_, _)
DigitsLeq(a, b) ==
    IF Len(a) # Len(b) THEN Len(a) < Len(b)
    ELSE IF a = << >> THEN TRUE
    ELSE IF a[1] # b[1] THEN DigitOf(a[1]) < DigitOf(b[1])
    ELSE DigitsLeq(Tail(a), Tail(b))

\* The value of a digit sequence, negated; accumulated below zero so that
\* -2^31 is reached without leaving the 32-bit range.
RECURSIVE NegativeValue(_, _)
NegativeValue(d, acc) ==
    IF d = << >> THEN acc
    ELSE NegativeValue(Tail(d), acc * 10 - DigitOf(d[1]))

\* INT32_MAX and -INT32_MIN, INT64_MAX and -INT64_MIN in digits.
Int32MaxDigits == <<"2", "1", "4", "7", "4", "8", "3", "6", "4", "7">>
Int32MinDigits == <<"2", "1", "4", "7", "4", "8", "3", "6", "4", "8">>
Int64MaxDigits == <<"9", "2", "2", "3", "3", "7", "2", "0", "3", "6",
                    "8", "5", "4", "7", "7", "5", "8", "0", "7">>
Int64MinDigits == <<"9", "2", "2", "3", "3", "7", "2", "0", "3", "6",
                    "8", "5", "4", "7", "7", "5", "8", "0", "8">>

\* The low 32 bits of a digit sequence's value, in two 16-bit halves.
RECURSIVE Low32(_, _, _)
Low32(d, hi, lo) ==
    IF d = << >> THEN <<hi, lo>>
    ELSE LET l == lo * 10 + DigitOf(d[1])
         IN  Low32(Tail(d), (hi * 10 + l \div 65536) % 65536, l % 65536)

\* stringToInt32 that converts in a wider type and casts: the value is the
\* input reduced modulo 2^32.
stringToInt32Wrapping(str) ==
    LET s == Trim(str)
    IN  IF ~isIntString(s) THEN [ok |-> FALSE, value |-> 0]
        ELSE LET m == Low32(Magnitude(s), 0, 0)
                 lo == IF IsNegative(s) THEN (65536 - m[2]) % 65536 ELSE m[2]
                 hi == IF IsNegative(s)
                       THEN (65535 - m[1] + (IF m[2] = 0 THEN 1 ELSE 0)) % 65536
                       ELSE m[1]
             IN  [ok |-> TRUE,
                  value |-> IF hi >= 32768 THEN (hi - 65536) * 65536 + lo
                            ELSE hi * 65536 + lo]

\* ConverterUtils::stringToInt32: throws for a text that is no integer or
\* whose value does not fit 32 bits.
stringToInt32(str) ==
    LET s == Trim(str)
    IN  IF ~isIntString(s) THEN [ok |-> FALSE, value |-> 0]
        ELSE IF ~DigitsLeq(Magnitude(s),
                           IF IsNegative(s) THEN Int32MinDigits ELSE Int32MaxDigits)
        THEN [ok |-> FALSE, value |-> 0]
        ELSE [ok |-> TRUE,
              value |-> IF IsNegative(s) THEN NegativeValue(Magnitude(s), 0)
                        ELSE 0 - NegativeValue(Magnitude(s), 0)]

\* ConverterUtils::stringToInt64: as stringToInt32 with the 64-bit range.
\* The value is kept as sign and decimal digits.
stringToInt64(str) ==
    LET s == Trim(str)
    IN  IF ~isIntString(s) THEN [ok |-> FALSE, value |-> [neg |-> FALSE, digits |-> << >>]]
        ELSE IF ~DigitsLeq(Magnitude(s),
                           IF IsNegative(s) THEN Int64MinDigits ELSE Int64MaxDigits)
        THEN [ok |-> FALSE, value |-> [neg |-> FALSE, digits |-> << >>]]
        ELSE [ok |-> TRUE,
              value |-> [neg |-> IsNegative(s), digits |-> Magnitude(s)]]

\* Float values are kept in thousandths.  ConverterUtils::isFloatString: an
\* optional '-', digits, and optionally '.' and digits.
isFloatString(str) ==
    /\ str # << >>
    /\ LET body == IF str[1] = "-" THEN Tail(str) ELSE str
           dot == Find(body, ".")
       IN  IF dot = 0 THEN body # << >> /\ AllDigits(body)
           ELSE /\ dot > 1
                /\ dot < Len(body)
                /\ AllDigits(SubSeq(body, 1, dot - 1))
                /\ AllDigits(SubSeq(body, dot + 1, Len(body)))

\* The first three decimals of a fraction, in thousandths.
Thousandths(frac) ==
    LET d(i) == IF i <= Len(frac) THEN DigitOf(frac[i]) ELSE 0
    IN  d(1) * 100 + d(2) * 10 + d(3)

\* ConverterUtils::stringToFloat: throws for a text that is no number.
stringToFloat(str) ==
    LET s == Trim(str)
    IN  IF ~isFloatString(s) THEN [ok |-> FALSE, value |-> 0]
        ELSE LET neg == s[1] = "-"
                 body == IF neg THEN Tail(s) ELSE s
                 dot == Find(body, ".")
                 whole == IF dot = 0 THEN body ELSE SubSeq(body, 1, dot - 1)
                 frac == IF dot = 0 THEN << >> ELSE SubSeq(body, dot + 1, Len(body))
                 mag == (0 - NegativeValue(StripZeros(whole), 0)) * 1000 + Thousandths(frac)
             IN  [ok |-> TRUE, value |-> IF neg THEN 0 - mag ELSE mag]

\* ConverterUtils::applyLinearScaling: value * multiplier + offset; the
\* multiplier is kept in tenths.
applyLinearScaling(value, multiplier10, offset) ==
    (value * multiplier10) \div 10 + offset

\* ConverterUtils::clampFloat, clampInt32.
clampFloat(value, minVal, maxVal) ==
    IF value < minVal THEN minVal
    ELSE IF value > maxVal THEN maxVal
    ELSE value

\* ------------------------------------------------------------ rule registry
\* The rule registry (AndroidVssConverter's conversion map) as the
\* specification describes it.  The paths "a" and "1" have string rules: "a"
\* takes every value, "1" takes strings of the digit "1" only.  The other
\* paths have typed rules; a path is one symbol of the stream.
StringPaths == {<<"a">>, <<"1">>}
Digits == {"1"}

VehicleSpeed == <<"Vehicle.Speed">>
CabinTemperature == <<"Cabin.Temperature">>
DoorIsOpen == <<"Doors.FrontLeft.IsOpen">>
Int32Path == <<"Int32.Signal">>
Int64Path == <<"Int64.Signal">>

TypedPaths == {VehicleSpeed, CabinTemperature, DoorIsOpen, Int32Path, Int64Path}

KnownPaths == StringPaths \cup TypedPaths

\* data_kind, unit_multiplier (in tenths), unit_offset, min_value and
\* max_value (in thousandths) of a typed rule.
Rule(vssPath) ==
    CASE vssPath = VehicleSpeed ->
             [data_kind |-> "Float", unit_multiplier |-> 36, unit_offset |-> 0,
              bounded |-> TRUE, min_value |-> 0, max_value |-> 300000]
      [] vssPath = CabinTemperature ->
             [data_kind |-> "Float", unit_multiplier |-> 18, unit_offset |-> 32000,
              bounded |-> TRUE, min_value |-> 0, max_value |-> 100000]
      [] vssPath = DoorIsOpen ->
             [data_kind |-> "Bool", unit_multiplier |-> 10, unit_offset |-> 0,
              bounded |-> FALSE, min_value |-> 0, max_value |-> 0]
      [] vssPath = Int32Path ->
             [data_kind |-> "Int32", unit_multiplier |-> 10, unit_offset |-> 0,
              bounded |-> FALSE, min_value |-> 0, max_value |-> 0]
      [] vssPath = Int64Path ->
             [data_kind |-> "Int64", unit_multiplier |-> 10, unit_offset |-> 0,
              bounded |-> FALSE, min_value |-> 0, max_value |-> 0]

\* A generated float conversion that checks the range before the unit
\* conversion.
convertFloatClampFirst(rule, value) ==
    LET parsed == stringToFloat(value)
    IN  IF ~parsed.ok THEN [outcome |-> "throw", value |-> << >>]
        ELSE LET clamped == IF rule.bounded
                            THEN clampFloat(parsed.value, rule.min_value, rule.max_value)
                            ELSE parsed.value
             IN  [outcome |-> "ok",
                  value |-> <<applyLinearScaling(clamped, rule.unit_multiplier,
                                                 rule.unit_offset)>>]

\* A generated float conversion that rejects a value outside the range.
convertFloatRejecting(rule, value) ==
    LET parsed == stringToFloat(value)
    IN  IF ~parsed.ok THEN [outcome |-> "throw", value |-> << >>]
        ELSE LET scaled == applyLinearScaling(parsed.value, rule.unit_multiplier,
                                              rule.unit_offset)
             IN  IF rule.bounded /\ (scaled < rule.min_value \/ scaled > rule.max_value)
                 THEN [outcome |-> "fail", value |-> << >>]
                 ELSE [outcome |-> "ok", value |-> <<scaled>>]

\* The conversion function generated for a float rule: stringToFloat, the
\* multiplier, the offset, then the minimum and the maximum.
convertFloat(rule, value) ==
    LET parsed == stringToFloat(value)
    IN  IF ~parsed.ok THEN [outcome |-> "throw", value |-> << >>]
        ELSE LET multiplied == (parsed.value * rule.unit_multiplier) \div 10
                 shifted == multiplied + rule.unit_offset
                 raised == IF rule.bounded /\ shifted < rule.min_value
                           THEN rule.min_value ELSE shifted
                 capped == IF rule.bounded /\ raised > rule.max_value
                           THEN rule.max_value ELSE raised
             IN  [outcome |-> "ok", value |-> <<capped>>]

\* The conversion functions generated for the other kinds.
convertBool(value) ==
    LET parsed == stringToBool(value)
    IN  IF parsed.ok THEN [outcome |-> "ok", value |-> <<parsed.value>>]
        ELSE [outcome |-> "throw", value |-> << >>]

convertInt32(value) ==
    LET parsed == stringToInt32(value)
    IN  IF parsed.ok THEN [outcome |-> "ok", value |-> <<parsed.value>>]
        ELSE [outcome |-> "throw", value |-> << >>]

convertInt64(value) ==
    LET parsed == stringToInt64(value)
    IN  IF parsed.ok THEN [outcome |-> "ok", value |-> <<parsed.value>>]
        ELSE [outcome |-> "throw", value |-> << >>]

\* convertVssToVhal for a path with a typed rule: the outcome "ok", "fail"
\* (returns false) or "throw", and the value of the VehiclePropValue.
convertTyped(vssPath, vssValue) ==
    LET rule == Rule(vssPath)
    IN  CASE rule.data_kind = "Float" -> convertFloat(rule, vssValue)
          [] rule.data_kind = "Bool" -> convertBool(vssValue)
          [] rule.data_kind = "Int32" -> convertInt32(vssValue)
          [] rule.data_kind = "Int64" -> convertInt64(vssValue)

\* The outcomes of convertVssToVhal(path, value).
ConvertOutcomes(vssPath, vssValue) ==
    IF vssPath \notin KnownPaths THEN {"fail"}
    ELSE IF vssPath \in TypedPaths THEN {convertTyped(vssPath, vssValue).outcome}
    ELSE IF vssPath = <<"a">> THEN {"ok"}
    ELSE IF \A i \in 1..Len(vssValue) : vssValue[i] \in Digits THEN {"ok"}
    ELSE {"fail", "throw"}

\* The value of the VehiclePropValue that convertVssToVhal fills in: the
\* text for a string rule, a one-element vector for a typed rule.
ConvertedValue(vssPath, vssValue) ==
    IF vssPath \in TypedPaths THEN convertTyped(vssPath, vssValue).value
    ELSE vssValue

\* The outcomes of the parent's doSetProperty for a converted value: the
\* store accepts it (StatusCode::OK), rejects it, or throws.
SetOutcomes == {"OK", "rejected", "throw"}

\* The outcomes of the hook mHal->setPropertyFromVehicle: it returns or it
\* throws.
HookOutcomes == {"ok", "throw"}

\* -------------------------------------------------------------------- state
VARIABLES
    pc,                    \* position of each thread
    msg,                   \* the message a thread has in processVssMessage
    mRunning,              \* VssCommConn::mRunning (atomic)
    mHasActiveConnection,  \* VssSocketComm::mHasActiveConnection (atomic)
    mClientSocket,         \* VssSocketComm::mClientSocket (plain int)
    mServerSocket,         \* VssSocketComm::mServerSocket (plain int)
    rbuf,                  \* readMessage's local string `message`
    rfd,                   \* the descriptor the pending recv was called with
    serverOpen,            \* kernel: the listening socket is open
    cst,                   \* kernel: each connection's server-side state
    script,                \* the byte stream every peer is going to send
    timeouts,              \* history: receive timeouts that found a partial record
    sent,                  \* how many of them the peer has sent
    rcvd,                  \* how many of them recv has returned
    peerEnd,               \* the peer's end: "up", "fin" (closed), "rst" (reset)
    mVssLock,              \* holder of VssVehicleEmulator::mVssLock
    mInitialized,
    mActive,
    mVssConverter,         \* "null", "uninit" (its initialize() failed) or "alive"
    mSocketComm,           \* "null" or "alive"
    mMessagesProcessed,
    mMessagesConverted,
    mConversionErrors,
    store,                 \* the property store: path -> value (<< >>: absent)
    notified,              \* the values handed to the change-notification hook
    mHal,                  \* the hook's owner: "set", or "null" when none is installed
    mLock,                 \* holder of the property store's mutex
    entry,                 \* one entry of the store, field by field
    access,                \* the writer and the client inside the store
    forwarded,             \* history: the records handed to processMessage
    lastCall,              \* history: the caller's last finished call
    lastRet,               \* history: what it returned
    starts,                \* number of start()/initialize() calls so far
    stops,                 \* number of stop()/shutdown() calls so far
    calls,                 \* number of direct processVssMessage() calls so far
    usedReleased,          \* history: the converter was used after its release
    lastOutcome            \* history: how the last processVssMessage() ended

listenerVars == <<mRunning, mHasActiveConnection, mClientSocket, mServerSocket,
                  rbuf, rfd>>
kernelVars == <<serverOpen, cst, sent, rcvd, peerEnd>>
emuVars == <<mVssLock, mInitialized, mActive, mVssConverter, mSocketComm>>
statVars == <<mMessagesProcessed, mMessagesConverted, mConversionErrors>>
entryVars == <<mLock, entry, access>>
storeVars == <<store, notified, mHal, entryVars>>
callVars == <<lastCall, lastRet, starts, stops, calls, usedReleased, lastOutcome>>

vars == <<pc, msg, listenerVars, kernelVars, script, timeouts, emuVars, statVars,
          storeVars, forwarded, callVars>>

\* The state after construction of a VssVehicleEmulator and of a
\* VssSocketComm whose processor it is; Scripts is what the peers may send,
\* Hals what the constructor may have been given as the hook's owner.
InitWith(Scripts, Hals) ==
    /\ pc = [t \in Threads |-> IF t = "caller" THEN "idle" ELSE "none"]
    /\ msg = [t \in Threads |-> << >>]
    /\ mRunning = FALSE
    /\ mHasActiveConnection = FALSE
    /\ mClientSocket = -1
    /\ mServerSocket = -1
    /\ rbuf = << >>
    /\ rfd = -1
    /\ serverOpen = FALSE
    /\ cst = [c \in Conns |-> "idle"]
    /\ script \in Scripts
    /\ timeouts = 0
    /\ sent = [c \in Conns |-> 0]
    /\ rcvd = [c \in Conns |-> 0]
    /\ peerEnd = [c \in Conns |-> "up"]
    /\ mVssLock = "free"
    /\ mInitialized = FALSE
    /\ mActive = FALSE
    /\ mVssConverter = "null"
    /\ mSocketComm = "null"
    /\ mMessagesProcessed = 0
    /\ mMessagesConverted = 0
    /\ mConversionErrors = 0
    /\ store = [p \in KnownPaths |-> << >>]
    /\ notified = << >>
    /\ mHal \in Hals
    /\ mLock = "free"
    /\ entry = [value |-> 0, timestamp |-> 0]
    /\ access = [set |-> "idle", writes |-> 0,
                 get |-> [c \in Clients |-> "idle"],
                 got |-> [c \in Clients |-> [value |-> 0, timestamp |-> 0]]]
    /\ forwarded = << >>
    /\ lastCall = "none"
    /\ lastRet = TRUE
    /\ starts = 0
    /\ stops = 0
    /\ calls = 0
    /\ usedReleased = FALSE
    /\ lastOutcome = "none"

\* ------------------------------------------------------ environment: peers
\* A peer connects to the listening socket; listen(fd, 1) keeps one
\* connection waiting.  Peers connect in the order 1, 2, ...
PeerConnect(c) ==
    /\ serverOpen
    /\ cst[c] = "idle"
    /\ \A d \in Conns : d < c => cst[d] # "idle"
    /\ \A d \in Conns : cst[d] # "queued"
    /\ cst' = [cst EXCEPT ![c] = "queued"]
    /\ UNCHANGED <<pc, msg, listenerVars, serverOpen, sent, rcvd, peerEnd, script, timeouts,
                   emuVars, statVars, storeVars, forwarded, callVars>>

\* The peer sends the next k bytes of its stream.
PeerSend(c, k) ==
    /\ cst[c] \in {"queued", "open"}
    /\ peerEnd[c] = "up"
    /\ k >= 1
    /\ sent[c] + k <= Len(script)
    /\ sent' = [sent EXCEPT ![c] = @ + k]
    /\ UNCHANGED <<pc, msg, listenerVars, serverOpen, cst, rcvd, peerEnd, script, timeouts,
                   emuVars, statVars, storeVars, forwarded, callVars>>

\* The peer closes its end (recv returns 0 once the data is drained) or the
\* connection breaks (recv fails with an error that is no timeout).
PeerEnd(c, how) ==
    /\ cst[c] \in {"queued", "open"}
    /\ peerEnd[c] = "up"
    /\ peerEnd' = [peerEnd EXCEPT ![c] = how]
    /\ UNCHANGED <<pc, msg, listenerVars, serverOpen, cst, sent, rcvd, script, timeouts,
                   emuVars, statVars, storeVars, forwarded, callVars>>

\* --------------------------------------------------------------- kernel
\* close(fd) on an accepted socket; on -1 or a closed descriptor it fails
\* with EBADF and changes nothing.
CloseFd(st, fd) ==
    IF fd \in Conns /\ st[fd] = "open" THEN [st EXCEPT ![fd] = "closed"] ELSE st

\* close() of the listening socket: a connection still waiting is dropped.
DropQueued(st) == [c \in Conns |-> IF st[c] = "queued" THEN "closed" ELSE st[c]]

\* ------------------------------------------------------ VssSocketComm::start
FailKinds == {"none", "socket", "setsockopt", "bind", "listen"}

\* start() whose failure paths after socket() do not call closeSocket().
StartBodyNoCloseOnFailure(cs, flag, fail) ==
    IF fail \notin {"none", "socket"}
    THEN /\ mServerSocket' = 0
         /\ serverOpen' = TRUE
         /\ mClientSocket' = cs
         /\ mHasActiveConnection' = flag
         /\ mRunning' = FALSE
         /\ UNCHANGED cst
    ELSE /\ mServerSocket' = (IF fail = "none" THEN 0 ELSE -1)
         /\ serverOpen' = (IF fail = "none" THEN TRUE ELSE serverOpen)
         /\ mClientSocket' = cs
         /\ mHasActiveConnection' = flag
         /\ mRunning' = (fail = "none")
         /\ UNCHANGED cst

\* setupServerSocket() followed by the rest of start(), run while no read
\* thread exists, on a listener whose mClientSocket and
\* mHasActiveConnection are cs and flag.  fail says which system call fails.  socket() failing
\* leaves the negative result in mServerSocket; the later failures call
\* closeSocket(), which also closes a client socket that is still recorded.
StartBody(cs, flag, fail) ==
    IF fail = "socket"
    THEN /\ mServerSocket' = -1
         /\ mClientSocket' = cs
         /\ mHasActiveConnection' = flag
         /\ mRunning' = FALSE
         /\ UNCHANGED <<serverOpen, cst>>
    ELSE IF fail # "none"
    THEN /\ mServerSocket' = -1
         /\ serverOpen' = FALSE
         /\ cst' = CloseFd(cst, cs)
         /\ mClientSocket' = -1
         /\ mHasActiveConnection' = (IF cs >= 0 THEN FALSE ELSE flag)
         /\ mRunning' = FALSE
    ELSE /\ mServerSocket' = 0
         /\ serverOpen' = TRUE
         /\ mClientSocket' = cs
         /\ mHasActiveConnection' = flag
         /\ mRunning' = TRUE
         /\ UNCHANGED cst

\* bind() on the listener's port succeeds only while no other listening
\* socket holds the port, so a call sequence in which bind succeeds is one
\* of these.
BindPossible(fail) == fail \in {"none", "listen"} => ~serverOpen

\* start() without the test of mRunning: the socket is set up and a thread
\* created on every call.
StartWithoutRunningTest(fail) ==
    /\ pc["caller"] = "idle"
    /\ starts < MaxStarts
    /\ starts' = starts + 1
    /\ lastCall' = "start"
    /\ BindPossible(fail)
    /\ StartBody(mClientSocket, mHasActiveConnection, fail)
    /\ lastRet' = (fail = "none")
    /\ pc' = [pc EXCEPT !["reader"] = IF fail = "none" THEN "loop" ELSE @]
    /\ UNCHANGED <<msg, rbuf, rfd, sent, rcvd, peerEnd, script, timeouts, emuVars, statVars,
                   storeVars, forwarded, stops, calls, usedReleased, lastOutcome>>

\* start() called on the listener: returns true at once when already
\* running; otherwise sets the socket up, sets mRunning and creates the
\* read thread.
Start(fail) ==
    /\ pc["caller"] = "idle"
    /\ starts < MaxStarts
    /\ starts' = starts + 1
    /\ lastCall' = "start"
    /\ IF mRunning
       THEN /\ fail = "none"
            /\ lastRet' = TRUE
            /\ UNCHANGED <<pc, mRunning, mHasActiveConnection, mClientSocket,
                           mServerSocket, serverOpen, cst>>
       ELSE /\ BindPossible(fail)
            /\ StartBody(mClientSocket, mHasActiveConnection, fail)
            /\ lastRet' = (fail = "none")
            /\ pc' = [pc EXCEPT !["reader"] = IF fail = "none" THEN "loop" ELSE @]
    /\ UNCHANGED <<msg, rbuf, rfd, sent, rcvd, peerEnd, script, timeouts, emuVars, statVars,
                   storeVars, forwarded, stops, calls, usedReleased, lastOutcome>>

\* ------------------------------------------------------- VssSocketComm::stop
\* Where the caller goes when stop() returns: back into shutdown() when
\* that is what called it.
AfterStop == IF mVssLock = "caller" THEN "sd_reset" ELSE "idle"

\* stop(): nothing when not running; else clear mRunning and go on to
\* closeSocket().
Stop ==
    /\ pc["caller"] = "idle"
    /\ stops < MaxStops
    /\ stops' = stops + 1
    /\ IF ~mRunning
       THEN /\ lastCall' = "stop"
            /\ UNCHANGED <<pc, mRunning>>
       ELSE /\ mRunning' = FALSE
            /\ pc' = [pc EXCEPT !["caller"] = "cs1"]
            /\ UNCHANGED lastCall
    /\ UNCHANGED <<msg, mHasActiveConnection, mClientSocket, mServerSocket, rbuf, rfd,
                   kernelVars, script, timeouts, emuVars, statVars, storeVars, forwarded,
                   lastRet, starts, calls, usedReleased, lastOutcome>>

\* closeSocket(), statement by statement: the read thread runs beside it.
\* if (mClientSocket >= 0)
CloseSocketTest ==
    /\ pc["caller"] = "cs1"
    /\ pc' = [pc EXCEPT !["caller"] = IF mClientSocket >= 0 THEN "cs2" ELSE "cs5"]
    /\ UNCHANGED <<msg, listenerVars, kernelVars, script, timeouts, emuVars, statVars,
                   storeVars, forwarded, callVars>>

\* close(mClientSocket)
CloseSocketClose ==
    /\ pc["caller"] = "cs2"
    /\ cst' = CloseFd(cst, mClientSocket)
    /\ pc' = [pc EXCEPT !["caller"] = "cs3"]
    /\ UNCHANGED <<msg, listenerVars, serverOpen, sent, rcvd, peerEnd, script, timeouts,
                   emuVars, statVars, storeVars, forwarded, callVars>>

\* mClientSocket = -1
CloseSocketClear ==
    /\ pc["caller"] = "cs3"
    /\ mClientSocket' = -1
    /\ pc' = [pc EXCEPT !["caller"] = "cs4"]
    /\ UNCHANGED <<msg, mRunning, mHasActiveConnection, mServerSocket, rbuf, rfd,
                   kernelVars, script, timeouts, emuVars, statVars, storeVars, forwarded,
                   callVars>>

\* mHasActiveConnection = false
CloseSocketFlag ==
    /\ pc["caller"] = "cs4"
    /\ mHasActiveConnection' = FALSE
    /\ pc' = [pc EXCEPT !["caller"] = "cs5"]
    /\ UNCHANGED <<msg, mRunning, mClientSocket, mServerSocket, rbuf, rfd,
                   kernelVars, script, timeouts, emuVars, statVars, storeVars, forwarded,
                   callVars>>

\* closeSocket() that forgets the listening socket.
CloseSocketServerLeft ==
    /\ pc["caller"] = "cs5"
    /\ pc' = [pc EXCEPT !["caller"] = "join"]
    /\ UNCHANGED <<msg, listenerVars, kernelVars, script, timeouts, emuVars, statVars,
                   storeVars, forwarded, callVars>>

\* if (mServerSocket >= 0) { close(mServerSocket); mServerSocket = -1; }
CloseSocketServer ==
    /\ pc["caller"] = "cs5"
    /\ IF mServerSocket >= 0
       THEN /\ serverOpen' = FALSE
            /\ cst' = DropQueued(cst)
            /\ mServerSocket' = -1
       ELSE UNCHANGED <<serverOpen, cst, mServerSocket>>
    /\ pc' = [pc EXCEPT !["caller"] = "join"]
    /\ UNCHANGED <<msg, mRunning, mHasActiveConnection, mClientSocket, rbuf, rfd,
                   sent, rcvd, peerEnd, script, timeouts, emuVars, statVars, storeVars,
                   forwarded, callVars>>

\* stop() that returns without joining the read thread.
StopWithoutJoin ==
    /\ pc["caller"] = "join"
    /\ pc' = [pc EXCEPT !["caller"] = AfterStop]
    /\ lastCall' = "stop"
    /\ UNCHANGED <<msg, listenerVars, kernelVars, script, timeouts, emuVars, statVars,
                   storeVars, forwarded, lastRet, starts, stops, calls, usedReleased,
                   lastOutcome>>

\* if (mReadThread.joinable()) mReadThread.join(); then stop() returns.
\* join() waits until readLoop has returned.
StopJoin ==
    /\ pc["caller"] = "join"
    /\ pc["reader"] \in {"none", "done"}
    /\ pc' = [pc EXCEPT !["caller"] = AfterStop, !["reader"] = "none"]
    /\ lastCall' = "stop"
    /\ UNCHANGED <<msg, listenerVars, kernelVars, script, timeouts, emuVars, statVars,
                   storeVars, forwarded, lastRet, starts, stops, calls, usedReleased, lastOutcome>>

\* --------------------------------------------------- VssSocketComm::readLoop
\* while (mRunning.load())
ReadLoopHead ==
    /\ pc["reader"] = "loop"
    /\ pc' = [pc EXCEPT !["reader"] = IF mRunning THEN "chk" ELSE "done"]
    /\ UNCHANGED <<msg, listenerVars, kernelVars, script, timeouts, emuVars, statVars,
                   storeVars, forwarded, callVars>>

\* A read loop that calls acceptConnection() without looking at
\* mHasActiveConnection.
ReadLoopAlwaysAccept ==
    /\ pc["reader"] = "chk"
    /\ pc' = [pc EXCEPT !["reader"] = "acc1"]
    /\ UNCHANGED <<msg, listenerVars, kernelVars, script, timeouts, emuVars, statVars,
                   storeVars, forwarded, callVars>>

\* if (!mHasActiveConnection.load() && !acceptConnection()): accept is
\* attempted only while no connection is active.
ReadLoopCheck ==
    /\ pc["reader"] = "chk"
    /\ pc' = [pc EXCEPT !["reader"] = IF mHasActiveConnection THEN "rm0" ELSE "acc1"]
    /\ UNCHANGED <<msg, listenerVars, kernelVars, script, timeouts, emuVars, statVars,
                   storeVars, forwarded, callVars>>

\* acceptConnection(): if (mServerSocket < 0) return false; else call accept.
AcceptTest ==
    /\ pc["reader"] = "acc1"
    /\ pc' = [pc EXCEPT !["reader"] = IF mServerSocket < 0 THEN "sleep" ELSE "acc2"]
    /\ UNCHANGED <<msg, listenerVars, kernelVars, script, timeouts, emuVars, statVars,
                   storeVars, forwarded, callVars>>

\* mClientSocket = accept(...): a waiting connection is returned; without
\* one accept fails (timeout, or the socket was closed) and -1 is stored.
AcceptReturn ==
    /\ pc["reader"] = "acc2"
    /\ IF \E c \in Conns : cst[c] = "queued"
       THEN LET c == CHOOSE d \in Conns : cst[d] = "queued"
            IN  /\ cst' = [cst EXCEPT ![c] = "open"]
                /\ mClientSocket' = c
                /\ pc' = [pc EXCEPT !["reader"] = "acc3"]
       ELSE /\ mClientSocket' = -1
            /\ pc' = [pc EXCEPT !["reader"] = "sleep"]
            /\ UNCHANGED cst
    /\ UNCHANGED <<msg, mRunning, mHasActiveConnection, mServerSocket, rbuf, rfd,
                   serverOpen, sent, rcvd, peerEnd, script, timeouts, emuVars, statVars,
                   storeVars, forwarded, callVars>>

\* setsockopt(mClientSocket, SO_RCVTIMEO); mHasActiveConnection = true;
\* return true.
AcceptDone ==
    /\ pc["reader"] = "acc3"
    /\ mHasActiveConnection' = TRUE
    /\ pc' = [pc EXCEPT !["reader"] = "rm0"]
    /\ UNCHANGED <<msg, mRunning, mClientSocket, mServerSocket, rbuf, rfd,
                   kernelVars, script, timeouts, emuVars, statVars, storeVars, forwarded,
                   callVars>>

\* std::this_thread::sleep_for(100ms); continue;
AcceptRetrySleep ==
    /\ pc["reader"] = "sleep"
    /\ pc' = [pc EXCEPT !["reader"] = "loop"]
    /\ UNCHANGED <<msg, listenerVars, kernelVars, script, timeouts, emuVars, statVars,
                   storeVars, forwarded, callVars>>

\* ------------------------------------------------ VssSocketComm::readMessage
\* readMessage whose string is not a fresh local: it starts with the bytes
\* that were held when the previous peer was lost.
ReadMessageEnterWithLeftover ==
    /\ pc["reader"] = "rm0"
    /\ pc' = [pc EXCEPT !["reader"] =
                 IF mClientSocket < 0 \/ ~mHasActiveConnection THEN "loop" ELSE "rm1"]
    /\ rbuf' = IF mClientSocket \in Conns /\ mClientSocket > 1
                    /\ rcvd[mClientSocket - 1] < Len(script)
               THEN SubSeq(script, 1, rcvd[mClientSocket - 1])
               ELSE << >>
    /\ UNCHANGED <<msg, mRunning, mHasActiveConnection, mClientSocket, mServerSocket,
                   rfd, kernelVars, script, timeouts, emuVars, statVars, storeVars, forwarded,
                   callVars>>

\* if (mClientSocket < 0 || !mHasActiveConnection.load()) return "";
\* else the local string `message` starts empty.  An empty result takes
\* readLoop to its next iteration.
ReadMessageEnter ==
    /\ pc["reader"] = "rm0"
    /\ pc' = [pc EXCEPT !["reader"] =
                 IF mClientSocket < 0 \/ ~mHasActiveConnection THEN "loop" ELSE "rm1"]
    /\ rbuf' = << >>
    /\ UNCHANGED <<msg, mRunning, mHasActiveConnection, mClientSocket, mServerSocket,
                   rfd, kernelVars, script, timeouts, emuVars, statVars, storeVars, forwarded,
                   callVars>>

\* readMessage's loop without the test of mRunning.
ReadMessageLoopIgnoringStop ==
    /\ pc["reader"] = "rm1"
    /\ IF mHasActiveConnection
       THEN /\ rfd' = mClientSocket
            /\ pc' = [pc EXCEPT !["reader"] = "rm2"]
            /\ UNCHANGED rbuf
       ELSE /\ rbuf' = << >>
            /\ pc' = [pc EXCEPT !["reader"] = "loop"]
            /\ UNCHANGED rfd
    /\ UNCHANGED <<msg, mRunning, mHasActiveConnection, mClientSocket, mServerSocket,
                   kernelVars, script, timeouts, emuVars, statVars, storeVars, forwarded,
                   callVars>>

\* while (mRunning.load() && mHasActiveConnection.load()): when it holds,
\* recv(mClientSocket, ...) is called; else readMessage returns "" and the
\* local string is gone.
ReadMessageLoop ==
    /\ pc["reader"] = "rm1"
    /\ IF mRunning /\ mHasActiveConnection
       THEN /\ rfd' = mClientSocket
            /\ pc' = [pc EXCEPT !["reader"] = "rm2"]
            /\ UNCHANGED rbuf
       ELSE /\ rbuf' = << >>
            /\ pc' = [pc EXCEPT !["reader"] = "loop"]
            /\ UNCHANGED rfd
    /\ UNCHANGED <<msg, mRunning, mHasActiveConnection, mClientSocket, mServerSocket,
                   kernelVars, script, timeouts, emuVars, statVars, storeVars, forwarded,
                   callVars>>

\* recv returns n > 0 bytes: they are framed; a complete non-blank record
\* is returned to readLoop (the rest of the local string is dropped with
\* it), which hands it to processMessage.
RecvData(n) ==
    /\ pc["reader"] = "rm2"
    /\ rfd \in Conns
    /\ cst[rfd] = "open"
    /\ n \in 1..(sent[rfd] - rcvd[rfd])
    /\ LET f == FrameData(rbuf, SubSeq(script, rcvd[rfd] + 1, rcvd[rfd] + n))
       IN  IF f.ret
           THEN /\ rbuf' = << >>
                /\ msg' = [msg EXCEPT !["reader"] = f.out]
                /\ forwarded' = Append(forwarded, [conn |-> rfd, rec |-> f.out])
                /\ pc' = [pc EXCEPT !["reader"] = "pv_active"]
           ELSE /\ rbuf' = f.message
                /\ pc' = [pc EXCEPT !["reader"] = "rm1"]
                /\ UNCHANGED <<msg, forwarded>>
    /\ rcvd' = [rcvd EXCEPT ![rfd] = @ + n]
    /\ rfd' = -1
    /\ UNCHANGED <<mRunning, mHasActiveConnection, mClientSocket, mServerSocket,
                   serverOpen, cst, sent, peerEnd, script, timeouts, emuVars, statVars,
                   storeVars, callVars>>

\* readMessage that takes a receive timeout for the loss of the peer.
RecvTimeoutAsLoss ==
    /\ pc["reader"] = "rm2"
    /\ rfd \in Conns
    /\ \/ cst[rfd] = "open" /\ sent[rfd] = rcvd[rfd] /\ peerEnd[rfd] = "up"
       \/ cst[rfd] = "closed"
    /\ mHasActiveConnection' = FALSE
    /\ pc' = [pc EXCEPT !["reader"] = "lost2"]
    /\ UNCHANGED <<msg, mRunning, mClientSocket, mServerSocket, rbuf, rfd,
                   kernelVars, script, timeouts, emuVars, statVars, storeVars,
                   forwarded, callVars>>

\* recv fails with EWOULDBLOCK/EAGAIN after the receive timeout: continue.
\* (A recv that was blocked when the descriptor was closed also ends so.)
RecvTimeout ==
    /\ pc["reader"] = "rm2"
    /\ rfd \in Conns
    /\ \/ cst[rfd] = "open" /\ sent[rfd] = rcvd[rfd] /\ peerEnd[rfd] = "up"
       \/ cst[rfd] = "closed"
    /\ pc' = [pc EXCEPT !["reader"] = "rm1"]
    /\ rfd' = -1
    /\ timeouts' = IF rbuf # << >> /\ cst[rfd] = "open" /\ timeouts < MaxTimeouts
                   THEN timeouts + 1
                   ELSE timeouts
    /\ UNCHANGED <<msg, mRunning, mHasActiveConnection, mClientSocket, mServerSocket,
                   rbuf, kernelVars, script, emuVars, statVars, storeVars, forwarded,
                   callVars>>

\* recv returns 0 (the peer closed) or fails with another error (reset
\* connection, bad descriptor): mHasActiveConnection = false;
RecvLost ==
    /\ pc["reader"] = "rm2"
    /\ \/ rfd \notin Conns
       \/ rfd \in Conns /\ cst[rfd] = "closed"
       \/ rfd \in Conns /\ cst[rfd] = "open" /\ sent[rfd] = rcvd[rfd]
                        /\ peerEnd[rfd] \in {"fin", "rst"}
    /\ mHasActiveConnection' = FALSE
    /\ pc' = [pc EXCEPT !["reader"] = "lost2"]
    /\ UNCHANGED <<msg, mRunning, mClientSocket, mServerSocket, rbuf, rfd,
                   kernelVars, script, timeouts, emuVars, statVars, storeVars, forwarded,
                   callVars>>

\* Peer-loss handling that does not close the client socket.
LostCloseSkipped ==
    /\ pc["reader"] = "lost2"
    /\ pc' = [pc EXCEPT !["reader"] = "lost3"]
    /\ UNCHANGED <<msg, listenerVars, kernelVars, script, timeouts, emuVars, statVars,
                   storeVars, forwarded, callVars>>

\* close(mClientSocket);
LostClose ==
    /\ pc["reader"] = "lost2"
    /\ cst' = CloseFd(cst, mClientSocket)
    /\ pc' = [pc EXCEPT !["reader"] = "lost3"]
    /\ UNCHANGED <<msg, listenerVars, serverOpen, sent, rcvd, peerEnd, script, timeouts,
                   emuVars, statVars, storeVars, forwarded, callVars>>

\* Peer-loss handling that returns what is buffered as a last record
\* instead of "".
LostClearFlushingPartial ==
    /\ pc["reader"] = "lost3"
    /\ mClientSocket' = -1
    /\ rbuf' = << >>
    /\ rfd' = -1
    /\ IF TrimRight(rbuf) # << >>
       THEN /\ msg' = [msg EXCEPT !["reader"] = TrimRight(rbuf)]
            /\ forwarded' = Append(forwarded, [conn |-> rfd, rec |-> TrimRight(rbuf)])
            /\ pc' = [pc EXCEPT !["reader"] = "pv_active"]
       ELSE /\ pc' = [pc EXCEPT !["reader"] = "loop"]
            /\ UNCHANGED <<msg, forwarded>>
    /\ UNCHANGED <<mRunning, mHasActiveConnection, mServerSocket,
                   kernelVars, script, timeouts, emuVars, statVars, storeVars, callVars>>

\* mClientSocket = -1; break; return "";
LostClear ==
    /\ pc["reader"] = "lost3"
    /\ mClientSocket' = -1
    /\ rbuf' = << >>
    /\ rfd' = -1
    /\ pc' = [pc EXCEPT !["reader"] = "loop"]
    /\ UNCHANGED <<msg, mRunning, mHasActiveConnection, mServerSocket,
                   kernelVars, script, timeouts, emuVars, statVars, storeVars, forwarded,
                   callVars>>

\* ------------------------------------------ VssVehicleEmulator::initialize
\* initialize() that does not test the result of the converter's
\* initialize() and goes on to start the listener.
InitializeIgnoringConverter(conv, fail) ==
    /\ pc["caller"] = "idle"
    /\ starts < MaxInits
    /\ mVssLock = "free"
    /\ starts' = starts + 1
    /\ IF mInitialized
       THEN /\ conv /\ fail = "none"
            /\ lastCall' = "initialize" /\ lastRet' = TRUE
            /\ UNCHANGED <<pc, mRunning, mHasActiveConnection, mClientSocket,
                           mServerSocket, serverOpen, cst, mVssLock, mVssConverter,
                           mSocketComm>>
       ELSE /\ mVssConverter' = (IF conv THEN "alive" ELSE "uninit")
            /\ mSocketComm' = "alive"
            /\ BindPossible(fail)
            /\ StartBody(-1, FALSE, fail)
            /\ IF fail = "none"
               THEN /\ mVssLock' = "caller"
                    /\ pc' = [pc EXCEPT !["caller"] = "in_fin", !["reader"] = "loop"]
                    /\ UNCHANGED <<lastCall, lastRet>>
               ELSE /\ lastCall' = "initialize" /\ lastRet' = FALSE
                    /\ UNCHANGED <<pc, mVssLock>>
    /\ UNCHANGED <<msg, rbuf, rfd, sent, rcvd, peerEnd, script, timeouts, mInitialized, mActive,
                   statVars, storeVars, forwarded, stops, calls, usedReleased, lastOutcome>>

\* initialize(), up to the return of mSocketComm->start(), under mVssLock.
\* Already initialized: returns true.  conv says whether the converter's
\* initialize() succeeds; then a new VssSocketComm is constructed (no
\* sockets, no connection, not running) and started.  On success the
\* caller still holds the lock and the read thread is running.
Initialize(conv, fail) ==
    /\ pc["caller"] = "idle"
    /\ starts < MaxInits
    /\ mVssLock = "free"
    /\ starts' = starts + 1
    /\ IF mInitialized
       THEN /\ conv /\ fail = "none"
            /\ lastCall' = "initialize" /\ lastRet' = TRUE
            /\ UNCHANGED <<pc, mRunning, mHasActiveConnection, mClientSocket,
                           mServerSocket, serverOpen, cst, mVssLock, mVssConverter,
                           mSocketComm>>
       ELSE IF ~conv
       THEN /\ fail = "none"
            /\ mVssConverter' = "uninit"
            /\ lastCall' = "initialize" /\ lastRet' = FALSE
            /\ UNCHANGED <<pc, mRunning, mHasActiveConnection, mClientSocket,
                           mServerSocket, serverOpen, cst, mVssLock, mSocketComm>>
       ELSE /\ mVssConverter' = "alive"
            /\ mSocketComm' = "alive"
            /\ BindPossible(fail)
            /\ StartBody(-1, FALSE, fail)
            /\ IF fail = "none"
               THEN /\ mVssLock' = "caller"
                    /\ pc' = [pc EXCEPT !["caller"] = "in_fin", !["reader"] = "loop"]
                    /\ UNCHANGED <<lastCall, lastRet>>
               ELSE /\ lastCall' = "initialize" /\ lastRet' = FALSE
                    /\ UNCHANGED <<pc, mVssLock>>
    /\ UNCHANGED <<msg, rbuf, rfd, sent, rcvd, peerEnd, script, timeouts, mInitialized, mActive,
                   statVars, storeVars, forwarded, stops, calls, usedReleased, lastOutcome>>

\* initialize() that also resets the three counters.
InitializeFinishResettingCounters ==
    /\ pc["caller"] = "in_fin"
    /\ mInitialized' = TRUE
    /\ mActive' = TRUE
    /\ mVssLock' = "free"
    /\ mMessagesProcessed' = 0
    /\ mMessagesConverted' = 0
    /\ mConversionErrors' = 0
    /\ pc' = [pc EXCEPT !["caller"] = "idle"]
    /\ lastCall' = "initialize" /\ lastRet' = TRUE
    /\ UNCHANGED <<msg, listenerVars, kernelVars, script, timeouts, mVssConverter, mSocketComm,
                   storeVars, forwarded, starts, stops, calls, usedReleased, lastOutcome>>

\* initialize() that sets mInitialized and leaves mActive as it is.
InitializeFinishLeavingInactive ==
    /\ pc["caller"] = "in_fin"
    /\ mInitialized' = TRUE
    /\ mVssLock' = "free"
    /\ pc' = [pc EXCEPT !["caller"] = "idle"]
    /\ lastCall' = "initialize" /\ lastRet' = TRUE
    /\ UNCHANGED <<msg, listenerVars, kernelVars, script, timeouts, mActive, mVssConverter,
                   mSocketComm, statVars, storeVars, forwarded, starts, stops, calls,
                   usedReleased, lastOutcome>>

\* mInitialized = true; mActive = true; return true (the lock is released).
InitializeFinish ==
    /\ pc["caller"] = "in_fin"
    /\ mInitialized' = TRUE
    /\ mActive' = TRUE
    /\ mVssLock' = "free"
    /\ pc' = [pc EXCEPT !["caller"] = "idle"]
    /\ lastCall' = "initialize" /\ lastRet' = TRUE
    /\ UNCHANGED <<msg, listenerVars, kernelVars, script, timeouts, mVssConverter, mSocketComm,
                   statVars, storeVars, forwarded, starts, stops, calls, usedReleased, lastOutcome>>

\* -------------------------------------------- VssVehicleEmulator::shutdown
\* shutdown() takes mVssLock; not initialized: returns.  Else mActive =
\* false and mSocketComm->stop() is entered (mRunning = false), the lock
\* still held.
Shutdown ==
    /\ pc["caller"] = "idle"
    /\ stops < MaxShutdowns
    /\ mVssLock = "free"
    /\ stops' = stops + 1
    /\ IF ~mInitialized
       THEN /\ lastCall' = "shutdown"
            /\ UNCHANGED <<pc, mVssLock, mActive, mRunning>>
       ELSE /\ mVssLock' = "caller"
            /\ mActive' = FALSE
            /\ mRunning' = FALSE
            /\ pc' = [pc EXCEPT !["caller"] = "cs1"]
            /\ UNCHANGED lastCall
    /\ UNCHANGED <<msg, mHasActiveConnection, mClientSocket, mServerSocket, rbuf, rfd,
                   kernelVars, script, timeouts, mInitialized, mVssConverter, mSocketComm,
                   statVars, storeVars, forwarded, lastRet, starts, calls, usedReleased, lastOutcome>>

\* After stop() has returned: mSocketComm.reset(); mVssConverter.reset();
\* mInitialized = false; return (the lock is released).
ShutdownFinish ==
    /\ pc["caller"] = "sd_reset"
    /\ mSocketComm' = "null"
    /\ mVssConverter' = "null"
    /\ mInitialized' = FALSE
    /\ mVssLock' = "free"
    /\ pc' = [pc EXCEPT !["caller"] = "idle"]
    /\ lastCall' = "shutdown"
    /\ UNCHANGED <<msg, listenerVars, kernelVars, script, timeouts, mActive, statVars,
                   storeVars, forwarded, lastRet, starts, stops, calls, usedReleased, lastOutcome>>

\* ------------------------------------ VssVehicleEmulator::processVssMessage
\* Where thread t goes when processVssMessage returns: the read thread to
\* its loop, a direct caller back to its own code.
Return(t) == IF t = "reader" THEN "loop" ELSE "idle"

\* A direct call of processVssMessage(m), as the VssMessageProcessor
\* interface allows.
DirectProcess(m) ==
    /\ pc["caller"] = "idle"
    /\ calls < MaxCalls
    /\ calls' = calls + 1
    /\ msg' = [msg EXCEPT !["caller"] = m]
    /\ pc' = [pc EXCEPT !["caller"] = "pv_active"]
    /\ UNCHANGED <<listenerVars, kernelVars, script, timeouts, emuVars, statVars, storeVars,
                   forwarded, lastCall, lastRet, starts, stops, usedReleased,
                   lastOutcome>>

\* processVssMessage whose isActive() reads the flags without mVssLock.
ProcessCheckActiveUnlocked(t) ==
    /\ pc[t] = "pv_active"
    /\ IF mActive /\ mInitialized
       THEN /\ pc' = [pc EXCEPT ![t] = "pv_parse"]
            /\ UNCHANGED <<msg, lastOutcome>>
       ELSE /\ pc' = [pc EXCEPT ![t] = Return(t)]
            /\ msg' = [msg EXCEPT ![t] = << >>]
            /\ lastOutcome' = "inactive"
    /\ UNCHANGED <<listenerVars, kernelVars, script, timeouts, emuVars, statVars, storeVars,
                   forwarded, lastCall, lastRet, starts, stops, calls, usedReleased>>

\* processVssMessage that counts the message before it tests isActive().
ProcessCheckActiveCountingFirst(t) ==
    /\ pc[t] = "pv_active"
    /\ mVssLock = "free"
    /\ mMessagesProcessed' = mMessagesProcessed + 1
    /\ IF mActive /\ mInitialized
       THEN /\ pc' = [pc EXCEPT ![t] = "pv_parse"]
            /\ UNCHANGED <<msg, lastOutcome>>
       ELSE /\ pc' = [pc EXCEPT ![t] = Return(t)]
            /\ msg' = [msg EXCEPT ![t] = << >>]
            /\ lastOutcome' = "inactive"
    /\ UNCHANGED <<listenerVars, kernelVars, script, timeouts, emuVars, mMessagesConverted,
                   mConversionErrors, storeVars, forwarded, lastCall, lastRet, starts,
                   stops, calls, usedReleased>>

\* if (!isActive()) return;  isActive() takes mVssLock to read the flags.
\* (A thread that has returned holds no message any more.)
ProcessCheckActive(t) ==
    /\ pc[t] = "pv_active"
    /\ mVssLock = "free"
    /\ IF mActive /\ mInitialized
       THEN /\ pc' = [pc EXCEPT ![t] = "pv_parse"]
            /\ UNCHANGED <<msg, lastOutcome>>
       ELSE /\ pc' = [pc EXCEPT ![t] = Return(t)]
            /\ msg' = [msg EXCEPT ![t] = << >>]
            /\ lastOutcome' = "inactive"
    /\ UNCHANGED <<listenerVars, kernelVars, script, timeouts, emuVars, statVars, storeVars,
                   forwarded, lastCall, lastRet, starts, stops, calls, usedReleased>>

\* processVssMessage that returns on a parse failure without counting it.
ProcessParseFailureUncounted(t) ==
    /\ pc[t] = "pv_parse"
    /\ mMessagesProcessed' = mMessagesProcessed + 1
    /\ IF parseVssMessage(msg[t]).ok
       THEN /\ pc' = [pc EXCEPT ![t] = "pv_conv"]
            /\ UNCHANGED <<mConversionErrors, msg, lastOutcome>>
       ELSE /\ UNCHANGED mConversionErrors
            /\ pc' = [pc EXCEPT ![t] = Return(t)]
            /\ msg' = [msg EXCEPT ![t] = << >>]
            /\ lastOutcome' = "malformed"
    /\ UNCHANGED <<listenerVars, kernelVars, script, timeouts, emuVars, mMessagesConverted,
                   storeVars, forwarded, lastCall, lastRet, starts, stops, calls,
                   usedReleased>>

\* mMessagesProcessed++; parseVssMessage: on failure mConversionErrors++
\* and return.
ProcessParse(t) ==
    /\ pc[t] = "pv_parse"
    /\ mMessagesProcessed' = mMessagesProcessed + 1
    /\ IF parseVssMessage(msg[t]).ok
       THEN /\ pc' = [pc EXCEPT ![t] = "pv_conv"]
            /\ UNCHANGED <<mConversionErrors, msg, lastOutcome>>
       ELSE /\ mConversionErrors' = mConversionErrors + 1
            /\ pc' = [pc EXCEPT ![t] = Return(t)]
            /\ msg' = [msg EXCEPT ![t] = << >>]
            /\ lastOutcome' = "malformed"
    /\ UNCHANGED <<listenerVars, kernelVars, script, timeouts, emuVars, mMessagesConverted,
                   storeVars, forwarded, lastCall, lastRet, starts, stops, calls,
                   usedReleased>>

\* processVssMessage that returns on a failed conversion without counting it.
ProcessConvertFailureUncounted(t) ==
    /\ pc[t] = "pv_conv"
    /\ LET p == parseVssMessage(msg[t])
       IN  \E o \in ConvertOutcomes(p.vssPath, p.vssValue) :
               IF o = "ok"
               THEN /\ pc' = [pc EXCEPT ![t] = "pv_update"]
                    /\ UNCHANGED <<msg, lastOutcome>>
               ELSE /\ pc' = [pc EXCEPT ![t] = Return(t)]
                    /\ msg' = [msg EXCEPT ![t] = << >>]
                    /\ lastOutcome' = "conversion_error"
    /\ usedReleased' = (usedReleased \/ mVssConverter = "null")
    /\ UNCHANGED <<listenerVars, kernelVars, script, timeouts, emuVars, statVars, storeVars,
                   forwarded, lastCall, lastRet, starts, stops, calls>>

\* processVssMessage without its catch block: an exception of the converter
\* leaves the function uncounted and ends the thread.
ProcessConvertWithoutCatch(t) ==
    /\ pc[t] = "pv_conv"
    /\ LET p == parseVssMessage(msg[t])
       IN  \E o \in ConvertOutcomes(p.vssPath, p.vssValue) :
               IF o = "ok"
               THEN /\ pc' = [pc EXCEPT ![t] = "pv_update"]
                    /\ UNCHANGED <<mConversionErrors, msg, lastOutcome>>
               ELSE IF o = "fail"
               THEN /\ mConversionErrors' = mConversionErrors + 1
                    /\ pc' = [pc EXCEPT ![t] = Return(t)]
                    /\ msg' = [msg EXCEPT ![t] = << >>]
                    /\ lastOutcome' = "conversion_error"
               ELSE /\ pc' = [pc EXCEPT ![t] = "terminated"]
                    /\ msg' = [msg EXCEPT ![t] = << >>]
                    /\ lastOutcome' = "conversion_error"
                    /\ UNCHANGED mConversionErrors
    /\ usedReleased' = (usedReleased \/ mVssConverter = "null")
    /\ UNCHANGED <<listenerVars, kernelVars, script, timeouts, emuVars, mMessagesProcessed,
                   mMessagesConverted, storeVars, forwarded, lastCall, lastRet,
                   starts, stops, calls>>

\* mVssConverter->convertVssToVhal(...): false or an exception counts one
\* error and returns.  usedReleased records a call through a reset pointer.
ProcessConvert(t) ==
    /\ pc[t] = "pv_conv"
    /\ LET p == parseVssMessage(msg[t])
       IN  \E o \in ConvertOutcomes(p.vssPath, p.vssValue) :
               IF o = "ok"
               THEN /\ pc' = [pc EXCEPT ![t] = "pv_update"]
                    /\ UNCHANGED <<mConversionErrors, msg, lastOutcome>>
               ELSE /\ mConversionErrors' = mConversionErrors + 1
                    /\ pc' = [pc EXCEPT ![t] = Return(t)]
                    /\ msg' = [msg EXCEPT ![t] = << >>]
                    /\ lastOutcome' = "conversion_error"
    /\ usedReleased' = (usedReleased \/ mVssConverter = "null")
    /\ UNCHANGED <<listenerVars, kernelVars, script, timeouts, emuVars, mMessagesProcessed,
                   mMessagesConverted, storeVars, forwarded, lastCall, lastRet,
                   starts, stops, calls>>

\* updateVhalProperty on a store that keeps the first value of a signal
\* instead of overwriting it.
ProcessUpdateKeepingFirst(t) ==
    /\ pc[t] = "pv_update"
    /\ LET p == parseVssMessage(msg[t])
           v == ConvertedValue(p.vssPath, p.vssValue)
           kept == IF store[p.vssPath] = << >> THEN v ELSE store[p.vssPath]
       IN  /\ store' = [store EXCEPT ![p.vssPath] = kept]
           /\ IF mHal = "null"
              THEN UNCHANGED notified
              ELSE notified' = Append(notified, [path |-> p.vssPath, value |-> kept])
    /\ mMessagesConverted' = mMessagesConverted + 1
    /\ lastOutcome' = "stored"
    /\ pc' = [pc EXCEPT ![t] = Return(t)]
    /\ msg' = [msg EXCEPT ![t] = << >>]
    /\ UNCHANGED <<listenerVars, kernelVars, script, timeouts, emuVars, mMessagesProcessed,
                   mConversionErrors, mHal, entryVars, forwarded, lastCall, lastRet, starts,
                   stops, calls, usedReleased>>

\* updateVhalProperty that calls the hook whatever doSetProperty returned.
ProcessUpdateNotifyingAlways(t) ==
    /\ pc[t] = "pv_update"
    /\ LET p == parseVssMessage(msg[t])
           v == ConvertedValue(p.vssPath, p.vssValue)
       IN  \E o \in SetOutcomes \ {"throw"} :
               /\ notified' = Append(notified, [path |-> p.vssPath, value |-> v])
               /\ IF o = "OK"
                  THEN /\ store' = [store EXCEPT ![p.vssPath] = v]
                       /\ mMessagesConverted' = mMessagesConverted + 1
                       /\ lastOutcome' = "stored"
                       /\ UNCHANGED mConversionErrors
                  ELSE /\ mConversionErrors' = mConversionErrors + 1
                       /\ lastOutcome' = "store_error"
                       /\ UNCHANGED <<store, mMessagesConverted>>
    /\ pc' = [pc EXCEPT ![t] = Return(t)]
    /\ msg' = [msg EXCEPT ![t] = << >>]
    /\ UNCHANGED <<listenerVars, kernelVars, script, timeouts, emuVars, mMessagesProcessed,
                   mHal, entryVars, forwarded, lastCall, lastRet, starts, stops, calls,
                   usedReleased>>

\* processVssMessage that ignores what updateVhalProperty returned and
\* counts the message as converted.
ProcessUpdateRejectionAsSuccess(t) ==
    /\ pc[t] = "pv_update"
    /\ LET p == parseVssMessage(msg[t])
           v == ConvertedValue(p.vssPath, p.vssValue)
       IN  \E o \in SetOutcomes : \E h \in HookOutcomes :
               IF o = "OK"
               THEN /\ store' = [store EXCEPT ![p.vssPath] = v]
                    /\ IF mHal = "null"
                       THEN /\ h = "ok"
                            /\ UNCHANGED notified
                       ELSE notified' = Append(notified, [path |-> p.vssPath, value |-> v])
                    /\ IF h = "ok"
                       THEN /\ mMessagesConverted' = mMessagesConverted + 1
                            /\ lastOutcome' = "stored"
                            /\ UNCHANGED mConversionErrors
                       ELSE /\ mConversionErrors' = mConversionErrors + 1
                            /\ lastOutcome' = "hook_error"
                            /\ UNCHANGED mMessagesConverted
               ELSE /\ h = "ok"
                    /\ mMessagesConverted' = mMessagesConverted + 1
                    /\ lastOutcome' = "store_error"
                    /\ UNCHANGED <<store, notified, mConversionErrors>>
    /\ pc' = [pc EXCEPT ![t] = Return(t)]
    /\ msg' = [msg EXCEPT ![t] = << >>]
    /\ UNCHANGED <<listenerVars, kernelVars, script, timeouts, emuVars, mMessagesProcessed,
                   mHal, entryVars, forwarded, lastCall, lastRet, starts, stops, calls,
                   usedReleased>>

\* updateVhalProperty(propValue): doSetProperty; on StatusCode::OK the
\* value is in the store and, when mHal is not null, the hook
\* (setPropertyFromVehicle) is called with it; then updateVhalProperty
\* returns true and mMessagesConverted++.  Any other status, or an
\* exception of doSetProperty or of the hook, counts one error.
ProcessUpdate(t) ==
    /\ pc[t] = "pv_update"
    /\ LET p == parseVssMessage(msg[t])
           v == ConvertedValue(p.vssPath, p.vssValue)
       IN  \E o \in SetOutcomes : \E h \in HookOutcomes :
               IF o = "OK"
               THEN /\ store' = [store EXCEPT ![p.vssPath] = v]
                    /\ IF mHal = "null"
                       THEN /\ h = "ok"
                            /\ UNCHANGED notified
                       ELSE notified' = Append(notified, [path |-> p.vssPath, value |-> v])
                    /\ IF h = "ok"
                       THEN /\ mMessagesConverted' = mMessagesConverted + 1
                            /\ lastOutcome' = "stored"
                            /\ UNCHANGED mConversionErrors
                       ELSE /\ mConversionErrors' = mConversionErrors + 1
                            /\ lastOutcome' = "hook_error"
                            /\ UNCHANGED mMessagesConverted
               ELSE /\ h = "ok"
                    /\ mConversionErrors' = mConversionErrors + 1
                    /\ lastOutcome' = "store_error"
                    /\ UNCHANGED <<store, notified, mMessagesConverted>>
    /\ pc' = [pc EXCEPT ![t] = Return(t)]
    /\ msg' = [msg EXCEPT ![t] = << >>]
    /\ UNCHANGED <<listenerVars, kernelVars, script, timeouts, emuVars, mMessagesProcessed,
                   mHal, entryVars, forwarded, lastCall, lastRet, starts, stops, calls,
                   usedReleased>>

\* ------------------------------------------------------- the property store
\* The parent's store (VehicleEmulator::doSetProperty / doGetProperty), as
\* the specification describes it: a mutex guards the entries; a write
\* replaces the fields of an entry one by one while it holds the mutex, a
\* read copies them while it holds the mutex.  One entry is modelled, with
\* the ingestion thread writing it (doSetProperty from updateVhalProperty)
\* and clients reading it (doGetProperty).  Write number n puts n into
\* both fields.
restOfModel == <<pc, msg, listenerVars, kernelVars, script, timeouts, emuVars, statVars,
                 store, notified, mHal, forwarded, callVars>>

SetPropertyLock ==
    /\ access.set = "idle"
    /\ access.writes < MaxWrites
    /\ mLock = "free"
    /\ mLock' = "writer"
    /\ access' = [access EXCEPT !.set = "value", !.writes = @ + 1]
    /\ UNCHANGED <<entry, restOfModel>>

SetPropertyValue ==
    /\ access.set = "value"
    /\ entry' = [entry EXCEPT !.value = access.writes]
    /\ access' = [access EXCEPT !.set = "timestamp"]
    /\ UNCHANGED <<mLock, restOfModel>>

SetPropertyTimestamp ==
    /\ access.set = "timestamp"
    /\ entry' = [entry EXCEPT !.timestamp = access.writes]
    /\ access' = [access EXCEPT !.set = "unlock"]
    /\ UNCHANGED <<mLock, restOfModel>>

SetPropertyUnlock ==
    /\ access.set = "unlock"
    /\ mLock' = "free"
    /\ access' = [access EXCEPT !.set = "idle"]
    /\ UNCHANGED <<entry, restOfModel>>

\* A read that does not take the store's mutex.
GetPropertyUnlocked(c) ==
    /\ access.get[c] = "idle"
    /\ access' = [access EXCEPT !.get[c] = "value"]
    /\ UNCHANGED <<mLock, entry, restOfModel>>

GetPropertyLock(c) ==
    /\ access.get[c] = "idle"
    /\ mLock = "free"
    /\ mLock' = c
    /\ access' = [access EXCEPT !.get[c] = "value"]
    /\ UNCHANGED <<entry, restOfModel>>

GetPropertyValue(c) ==
    /\ access.get[c] = "value"
    /\ access' = [access EXCEPT !.get[c] = "timestamp",
                                !.got[c].value = entry.value]
    /\ UNCHANGED <<mLock, entry, restOfModel>>

GetPropertyTimestamp(c) ==
    /\ access.get[c] = "timestamp"
    /\ access' = [access EXCEPT !.get[c] = "unlock",
                                !.got[c].timestamp = entry.timestamp]
    /\ UNCHANGED <<mLock, entry, restOfModel>>

\* The read returns its copy.
GetPropertyUnlock(c) ==
    /\ access.get[c] = "unlock"
    /\ mLock' = IF mLock = c THEN "free" ELSE mLock
    /\ access' = [access EXCEPT !.get[c] = "idle"]
    /\ UNCHANGED <<entry, restOfModel>>

\* ------------------------------------------------------------ specifications
\* The steps of the program's two threads and of the environment.
CloseSocketSteps ==
    \/ CloseSocketTest
    \/ CloseSocketClose
    \/ CloseSocketClear
    \/ CloseSocketFlag
    \/ CloseSocketServer

AcceptSteps ==
    \/ ReadLoopHead
    \/ ReadLoopCheck
    \/ AcceptTest
    \/ AcceptReturn
    \/ AcceptRetrySleep

ReadSteps ==
    \/ AcceptDone
    \/ ReadMessageEnter
    \/ ReadMessageLoop
    \/ \E n \in 1..MaxLen : RecvData(n)
    \/ RecvTimeout
    \/ RecvLost
    \/ LostClose
    \/ LostClear

\* Peers that send their stream in one piece (recv may still return it in
\* parts) and close when done with it or break off at any time.
PeerSteps ==
    \/ \E c \in Conns : PeerConnect(c)
    \/ \E c \in Conns : PeerSend(c, Len(script))
    \/ \E c \in Conns : \E how \in {"fin", "rst"} : PeerEnd(c, how)

ProcessSteps(t) ==
    \/ ProcessParse(t)
    \/ ProcessConvert(t)
    \/ ProcessUpdate(t)

\* What the peers send where the interleaving of the threads is the subject:
\* a well-formed record or a malformed one.
MenuScripts == {<<"a", EQ, "1", NL>>, <<"a", NL>>}

\* What they send where only the listener is the subject: one record.
ListenerScripts == {<<"a", NL>>}

\* The listener driven directly by start() and stop(); its processor is an
\* emulator that was never initialized, so forwarded records are ignored.
ListenerCaller ==
    \/ \E fail \in FailKinds : Start(fail)
    \/ Stop
    \/ CloseSocketSteps
    \/ StopJoin

ListenerReader ==
    \/ AcceptSteps
    \/ ReadSteps
    \/ ProcessCheckActive("reader")

InitListener == InitWith(ListenerScripts, {"set"})

NextListener == ListenerCaller \/ ListenerReader \/ PeerSteps

SpecListener == InitListener /\ [][NextListener]_vars

FairSpecListener ==
    SpecListener /\ WF_vars(ListenerCaller) /\ WF_vars(ListenerReader)

\* The emulator driven by initialize() and shutdown(); it owns the listener.
EmuCaller ==
    \/ \E conv \in BOOLEAN : \E fail \in FailKinds : Initialize(conv, fail)
    \/ InitializeFinish
    \/ Shutdown
    \/ CloseSocketSteps
    \/ StopJoin
    \/ ShutdownFinish

EmuReader ==
    \/ AcceptSteps
    \/ ReadSteps
    \/ ProcessCheckActive("reader")
    \/ ProcessSteps("reader")

Init == InitWith(MenuScripts, {"set"})

Next == EmuCaller \/ EmuReader \/ PeerSteps

Spec == Init /\ [][Next]_vars

FairSpec == Spec /\ WF_vars(EmuCaller) /\ WF_vars(EmuReader)

\* The framer fed every byte stream over {a, space, newline} up to MaxLen
\* bytes, cut into send and receive calls in every way, on the first
\* connection of a listener that is started and keeps running.
FramerScripts == SeqsUpTo({"a", SP, NL}, MaxLen)

FirstPeerSteps ==
    \/ PeerConnect(1)
    \/ \E k \in 1..MaxLen : PeerSend(1, k)
    \/ PeerEnd(1, "fin")

InitFramer == InitWith(FramerScripts, {"set"})

NextFramer ==
    \/ Start("none")
    \/ ListenerReader
    \/ FirstPeerSteps

SpecFramer == InitFramer /\ [][NextFramer]_vars

\* The emulator initialized and handed every message over {a, 1, =, space}
\* up to MaxMsgLen characters by direct calls; no peer connects and the read
\* thread, whose steps touch nothing the calls read, is left waiting.
Messages == SeqsUpTo({"a", "1", EQ, SP}, MaxMsgLen)

InitMsg == InitWith({<< >>}, {"set"})

NextMsg ==
    \/ \E conv \in BOOLEAN : \E fail \in FailKinds : Initialize(conv, fail)
    \/ InitializeFinish
    \/ \E m \in Messages : DirectProcess(m)
    \/ ProcessCheckActive("caller")
    \/ ProcessSteps("caller")

SpecMsg == InitMsg /\ [][NextMsg]_vars

\* The emulator initialized and fed, by one peer over the socket, a stream
\* of two records: a malformed, an unknown-signal or an unconvertible record
\* followed by a valid one, or two valid records for the same signal.  The
\* hook's owner is installed or not.
StoreScripts ==
    {<<"a", NL, "a", EQ, "1", NL>>,
     <<"a", "a", EQ, "1", NL, "a", EQ, "1", NL>>,
     <<"1", EQ, "a", NL, "1", EQ, "1", NL>>,
     <<"a", EQ, "1", NL, "a", EQ, "a", NL>>}

OnePeerSteps ==
    \/ PeerConnect(1)
    \/ PeerSend(1, Len(script))
    \/ PeerEnd(1, "fin")

InitStore == InitWith(StoreScripts, {"null", "set"})

NextStore ==
    \/ Initialize(TRUE, "none")
    \/ InitializeFinish
    \/ EmuReader
    \/ OnePeerSteps

SpecStore == InitStore /\ [][NextStore]_vars

\* An initialized emulator whose one peer sends, in pieces, a stream that
\* ends in an unterminated record, and closes or breaks the connection at
\* any time; the emulator may be shut down at any time.
PartialScripts ==
    {<<"a", EQ, "1">>,
     <<"a", EQ, "1", NL, "a", EQ, "a">>,
     <<"a", EQ, "1", NL>>}

PartialPeerSteps ==
    \/ PeerConnect(1)
    \/ \E k \in 1..MaxLen : PeerSend(1, k)
    \/ \E how \in {"fin", "rst"} : PeerEnd(1, how)

InitPartial == InitWith(PartialScripts, {"set"})

NextPartial ==
    \/ Initialize(TRUE, "none")
    \/ InitializeFinish
    \/ Shutdown
    \/ CloseSocketSteps
    \/ StopJoin
    \/ ShutdownFinish
    \/ EmuReader
    \/ PartialPeerSteps

SpecPartial == InitPartial /\ [][NextPartial]_vars

\* An initialized emulator whose one peer sends, in pieces, records with
\* trailing spaces, tabs and carriage returns and records of whitespace
\* only.
TrimScripts ==
    {<<"a", EQ, "1", SP, NL>>,
     <<"a", EQ, "1", "\t", "\r", NL>>,
     <<SP, NL>>,
     <<"\r", NL, NL, "\t", NL>>,
     <<SP, NL, "a", EQ, "1", "\r", NL>>}

InitTrim == InitWith(TrimScripts, {"set"})

NextTrim ==
    \/ Initialize(TRUE, "none")
    \/ InitializeFinish
    \/ EmuReader
    \/ PartialPeerSteps

SpecTrim == InitTrim /\ [][NextTrim]_vars

\* ------------------------------------------------- conversion specifications
\* An initialized emulator to which the caller hands messages directly, one
\* kind of rule at a time.
Message(vssPath, text) == vssPath \o <<EQ>> \o text

NonEmpty(A, n) == SeqsUpTo(A, n) \ {<< >>}

ConvSteps ==
    \/ Initialize(TRUE, "none")
    \/ InitializeFinish
    \/ ProcessCheckActive("caller")
    \/ ProcessSteps("caller")

InitConv == InitWith({<< >>}, {"set"})

\* Float rules: every short text of the characters 1 5 . - and
\* some longer ones for Vehicle.Speed, four values for Cabin.Temperature.
SpeedTexts ==
    NonEmpty({"1", "5", ".", "-"}, MaxTextLen)
        \cup {<<"1", "0", "0">>, <<"3", "3", ".", "3", "3">>,
             <<"1", "2", "0", ".", "5">>, <<"8", "3", ".", "3", "3">>,
             <<"8", "3", ".", "3", "4">>, <<"1", "a">>}

CabinTexts == {<<"2", "0">>, <<"-", "2", "0">>, <<"4", "0">>, <<"-", "1", "0">>}

FloatMessages ==
    {Message(VehicleSpeed, v) : v \in SpeedTexts}
        \cup {Message(CabinTemperature, v) : v \in CabinTexts}

NextFloat == ConvSteps \/ \E m \in FloatMessages : DirectProcess(m)

SpecFloat == InitConv /\ [][NextFloat]_vars

\* The boolean rule: every short text of the characters o n N f
\* and the literals in several spellings with other words.
BoolTexts ==
    NonEmpty({"o", "n", "N", "f"}, MaxTextLen)
        \cup {<<"t", "r", "u", "e">>, <<"T", "R", "U", "E">>, <<"T", "r", "u", "e">>,
             <<"t", "R", "u", "E">>, <<"f", "a", "l", "s", "e">>,
             <<"F", "A", "L", "S", "E">>, <<"F", "a", "l", "s", "e">>, <<"1">>,
             <<"0">>, <<"y", "e", "s">>, <<"Y", "E", "S">>, <<"Y", "e", "s">>,
             <<"N", "O">>, <<"O", "F", "F">>, <<"O", "f", "f">>, <<"O", "N">>,
             <<"m", "a", "y", "b", "e">>, <<"t", "r", "u", "e", "e">>,
             <<"t", "r", "u">>, <<"2">>, <<"t">>, <<"y">>, <<"1", "0">>,
             <<"e", "n", "a", "b", "l", "e", "d">>}

BoolMessages == {Message(DoorIsOpen, v) : v \in BoolTexts}

NextBool == ConvSteps \/ \E m \in BoolMessages : DirectProcess(m)

SpecBool == InitConv /\ [][NextBool]_vars

\* Integer rules: decimal integers at and beyond the ends of the 32-bit and
\* 64-bit ranges.
IntTexts ==
    {<<"0">>, <<"1">>, <<"-", "1">>, <<"0", "0", "7">>,
     <<"2", "1", "4", "7", "4", "8", "3", "6", "4", "7">>,
     <<"2", "1", "4", "7", "4", "8", "3", "6", "4", "8">>,
     <<"-", "2", "1", "4", "7", "4", "8", "3", "6", "4", "8">>,
     <<"-", "2", "1", "4", "7", "4", "8", "3", "6", "4", "9">>,
     <<"4", "2", "9", "4", "9", "6", "7", "2", "9", "7">>,
     <<"0", "0", "0", "0", "0", "0", "0", "0", "0", "0", "0", "0", "1">>,
     <<"9", "2", "2", "3", "3", "7", "2", "0", "3", "6", "8", "5", "4", "7", "7", "5", "8", "0", "7">>,
     <<"9", "2", "2", "3", "3", "7", "2", "0", "3", "6", "8", "5", "4", "7", "7", "5", "8", "0", "8">>,
     <<"-", "9", "2", "2", "3", "3", "7", "2", "0", "3", "6", "8", "5", "4", "7", "7", "5", "8", "0", "8">>,
     <<"-", "9", "2", "2", "3", "3", "7", "2", "0", "3", "6", "8", "5", "4", "7", "7", "5", "8", "0", "9">>,
     <<"1", "8", "4", "4", "6", "7", "4", "4", "0", "7", "3", "7", "0", "9", "5", "5", "1", "6", "1", "7">>}

IntMessages == {Message(p, v) : p \in {Int32Path, Int64Path}, v \in IntTexts}

NextInt == ConvSteps \/ \E m \in IntMessages : DirectProcess(m)

SpecInt == InitConv /\ [][NextInt]_vars

\* An initialized emulator whose peers send, one after the other and in
\* pieces, the record "Vehicle.Speed=33.33\n", and close or break the
\* connection at any time.
SpeedRecord == VehicleSpeed \o <<EQ, "3", "3", ".", "3", "3", NL>>

SpeedPeerSteps ==
    \/ \E c \in Conns : PeerConnect(c)
    \/ \E c \in Conns : \E k \in 1..MaxLen : PeerSend(c, k)
    \/ \E c \in Conns : \E how \in {"fin", "rst"} : PeerEnd(c, how)

InitSpeed == InitWith({SpeedRecord}, {"null", "set"})

NextSpeed ==
    \/ Initialize(TRUE, "none")
    \/ InitializeFinish
    \/ EmuReader
    \/ SpeedPeerSteps

SpecSpeed == InitSpeed /\ [][NextSpeed]_vars

\* The emulator initialized and shut down in any order, with any outcome of
\* the converter's and the listener's start, and handed messages by direct
\* calls before, between and after, while one peer sends a record.
IdleMessages == {<<"a", EQ, "1">>, <<"a">>}

NextIdle ==
    \/ EmuCaller
    \/ EmuReader
    \/ OnePeerSteps
    \/ \E m \in IdleMessages : DirectProcess(m)
    \/ ProcessCheckActive("caller")
    \/ ProcessSteps("caller")

SpecIdle == InitListener /\ [][NextIdle]_vars

\* The ingestion thread writing one store entry again and again while
\* clients read it.
NextEntry ==
    \/ SetPropertyLock
    \/ SetPropertyValue
    \/ SetPropertyTimestamp
    \/ SetPropertyUnlock
    \/ \E c \in Clients :
           \/ GetPropertyLock(c)
           \/ GetPropertyValue(c)
           \/ GetPropertyTimestamp(c)
           \/ GetPropertyUnlock(c)

SpecEntry == InitConv /\ [][NextEntry]_vars

\* ------------------------------------------------------------------- claims
\* The records handed to processMessage from connection c, in order.
RECURSIVE RecsOf(_, _)
RecsOf(fw, c) ==
    IF fw = << >> THEN << >>
    ELSE IF Head(fw).conn = c THEN <<Head(fw).rec>> \o RecsOf(Tail(fw), c)
    ELSE RecsOf(Tail(fw), c)

\* The non-blank newline-terminated records of a byte stream, each without
\* its trailing whitespace, in wire order.
RECURSIVE Records(_)
Records(s) ==
    IF Find(s, NL) = 0 THEN << >>
    ELSE LET r == TrimRight(SubSeq(s, 1, Find(s, NL) - 1))
             rest == SubSeq(s, Find(s, NL) + 1, Len(s))
         IN  (IF r = << >> THEN << >> ELSE <<r>>) \o Records(rest)

\* The bytes recv has returned so far on connection c.
Received(c) == SubSeq(script, 1, rcvd[c])

\* C1: for every stream and every split into receive calls, the records
\* forwarded from a connection are exactly the non-blank newline-terminated
\* records of the bytes received on it, once each and in wire order: what
\* is forwarded is always a prefix of them, and when the read thread goes
\* back to wait in recv all of them have been forwarded.
C1_ForwardedAreTheRecords ==
    \A c \in Conns :
        /\ IsPrefix(RecsOf(forwarded, c), Records(Received(c)))
        /\ (pc["reader"] = "rm2" /\ rfd = c)
              => RecsOf(forwarded, c) = Records(Received(c))

\* The caller is inside shutdown(), past the point where it took mVssLock.
InShutdown ==
    /\ mVssLock = "caller"
    /\ pc["caller"] \in {"cs1", "cs2", "cs3", "cs4", "cs5", "join", "sd_reset"}

\* C2: shutdown(), once called, returns, whatever the ingestion thread is
\* doing at that moment (in particular when it is about to call isActive()
\* from processVssMessage).
C2_ShutdownReturns == InShutdown ~> (pc["caller"] = "idle")

\* The caller is inside stop(), after it cleared mRunning.
InStop == pc["caller"] \in {"cs1", "cs2", "cs3", "cs4", "cs5", "join"}

\* C3: after stop() is called on a running listener the read loop exits
\* and stop() returns (the thread joined), whatever the loop was doing:
\* every blocking accept and recv returns at the latest on its timeout.
C3_StopReturns == InStop ~> (pc["caller"] = "idle" /\ pc["reader"] = "none")

\* stop() has cleared mRunning while the read thread is blocked in recv on
\* a connected peer that sends nothing.
C3_Witness ==
    /\ pc["caller"] = "cs1"
    /\ ~mRunning
    /\ pc["reader"] = "rm2"
    /\ rfd \in Conns
    /\ cst[rfd] = "open"
    /\ sent[rfd] = rcvd[rfd]
    /\ peerEnd[rfd] = "up"

\* C4: once stop() has returned the read thread has terminated, so it
\* forwards nothing more; shutdown() releases the converter only after
\* that, and the ingestion thread never calls a released converter.
C4_JoinedBeforeRelease ==
    /\ ~usedReleased
    /\ pc["caller"] = "sd_reset" => pc["reader"] = "none"
    /\ mVssConverter = "null" => pc["reader"] = "none"
    /\ (~mRunning /\ ~InStop) => pc["reader"] = "none"

\* stop() has returned inside shutdown() after messages were processed.
C4_Witness == pc["caller"] = "sd_reset" /\ mMessagesProcessed > 0

\* C5: between sequential start() and stop() calls there is a read thread
\* exactly while isRunning() is true; after a stop the port is free again,
\* and a start() reports success exactly when it left the listener running.
C5_OneThreadWhileRunning ==
    pc["caller"] = "idle" =>
        /\ (pc["reader"] # "none") <=> mRunning
        /\ ~mRunning => ~serverOpen
        /\ lastCall = "start" => (lastRet <=> mRunning)

\* start, stop, start, stop, start: the third start has succeeded.
C5_Witness ==
    /\ pc["caller"] = "idle"
    /\ starts = 3 /\ stops = 2
    /\ lastCall = "start" /\ lastRet /\ mRunning
    /\ pc["reader"] # "none"

\* The connection state as the listener's flags give it.
ConnState ==
    IF ~mRunning THEN "Stopped"
    ELSE IF mHasActiveConnection THEN "Connected"
    ELSE "Listening"

\* C6: the connection state moves only Stopped -> Listening, Listening ->
\* Connected, Connected -> Listening and Listening or Connected -> Stopped;
\* in particular a start takes Stopped to Listening, never to Connected.
C6_StateMachine ==
    [][\/ ConnState' = ConnState
       \/ <<ConnState, ConnState'>> \in {<<"Stopped", "Listening">>,
                                         <<"Listening", "Connected">>,
                                         <<"Connected", "Listening">>,
                                         <<"Listening", "Stopped">>,
                                         <<"Connected", "Stopped">>}]_vars

\* The connections accept() has returned and nobody has closed yet.
Accepted == {c \in Conns : cst[c] = "open"}

\* C7: at most one accepted peer socket is open at any time, and while the
\* read thread is in accept none is.
C7_AtMostOnePeer ==
    /\ Cardinality(Accepted) <= 1
    /\ pc["reader"] = "acc2" => Accepted = {}

\* A second peer is waiting while the first is connected.
C7_Witness ==
    \E c, d \in Conns : cst[c] = "open" /\ cst[d] = "queued" /\ mHasActiveConnection

\* C8: the handling of a lost peer (recv returned 0 or an error that is no
\* timeout) ends with the client socket closed and the connection flag
\* clear, changes neither mRunning nor the listening socket, and - unless
\* the listener is stopped - takes the read loop back into accept.
C8_PeerLossReturnsToAccept ==
    /\ [][(pc["reader"] = "lost3" /\ pc'["reader"] = "loop") =>
             /\ ~mHasActiveConnection'
             /\ mClientSocket' = -1
             /\ rfd \in Conns => cst'[rfd] = "closed"
             /\ mRunning' = mRunning
             /\ mServerSocket' = mServerSocket
             /\ serverOpen' = serverOpen]_vars
    /\ (pc["reader"] = "lost3") ~> (pc["reader"] = "acc2" \/ ~mRunning)

\* After the first peer was lost a record of the second one is forwarded.
C8_Witness ==
    /\ mRunning
    /\ cst[1] = "closed"
    /\ \E i \in 1..Len(forwarded) : forwarded[i].conn = 2

\* C9: a start() that fails returns false and leaves the listener stopped:
\* not running, no read thread, the server socket closed.
C9_FailedStartIsStopped ==
    (pc["caller"] = "idle" /\ lastCall = "start" /\ ~lastRet) =>
        /\ ~mRunning
        /\ pc["reader"] = "none"
        /\ ~serverOpen
        /\ mServerSocket < 0

\* A start() has failed after an earlier run of the listener.
C9_Witness ==
    /\ pc["caller"] = "idle" /\ lastCall = "start" /\ ~lastRet
    /\ stops >= 1
    /\ \E c \in Conns : cst[c] = "closed"

\* Thread t's parse step drops its message: it returns, counts one error
\* and touches neither the converted counter, the store nor the hook.
Dropped(t) ==
    /\ pc'[t] = Return(t)
    /\ mConversionErrors' = mConversionErrors + 1
    /\ mMessagesConverted' = mMessagesConverted
    /\ store' = store
    /\ notified' = notified

\* Thread t takes the parse step of processVssMessage.
ParseStep(t) == pc[t] = "pv_parse" /\ pc'[t] # "pv_parse"

\* The halves of a message around its first '=', trimmed.
PathOf(m) == Trim(SubSeq(m, 1, Find(m, EQ) - 1))
ValueOf(m) == Trim(SubSeq(m, Find(m, EQ) + 1, Len(m)))

\* Malformed as the claim words it: no '=', '=' as the first character,
\* '=' as the last character, or an empty trimmed path or value.
MalformedAsClaimed(m) ==
    \/ Find(m, EQ) = 0
    \/ m[1] = EQ
    \/ m[Len(m)] = EQ
    \/ PathOf(m) = << >>
    \/ ValueOf(m) = << >>

\* C10 as stated: a message with no '=', with '=' as its first or as its
\* last character, or with an empty trimmed path or value is dropped, with
\* one error counted, nothing converted and the store and hook untouched.
C10_AsClaimed ==
    [][\A t \in Threads :
          (ParseStep(t) /\ MalformedAsClaimed(msg[t])) => Dropped(t)]_vars

\* Malformed with "the first '=' is the last character" in place of "'='
\* is the last character".
MalformedFirstEquals(m) ==
    \/ Find(m, EQ) = 0
    \/ m[1] = EQ
    \/ Find(m, EQ) = Len(m)
    \/ PathOf(m) = << >>
    \/ ValueOf(m) = << >>

\* C10: a message with no '=', whose first '=' is its first or its last
\* character, or with an empty trimmed path or value is dropped, with one
\* error counted, nothing converted and the store and hook untouched.
C10_MalformedDropped ==
    [][\A t \in Threads :
          (ParseStep(t) /\ MalformedFirstEquals(msg[t])) => Dropped(t)]_vars

\* A message with an empty path has been dropped as malformed, alone.
C10_Witness ==
    /\ lastOutcome = "malformed"
    /\ mMessagesProcessed = 1
    /\ mConversionErrors = 1
    /\ mMessagesConverted = 0
    /\ \A p \in KnownPaths : store[p] = << >>

\* The position of the first '=' of a message that has one.
FirstEquals(m) ==
    CHOOSE i \in 1..Len(m) : m[i] = EQ /\ \A j \in 1..(i - 1) : m[j] # EQ

\* Thread t's update step puts the message's value into the store.
StoreStep(t) ==
    /\ pc[t] = "pv_update"
    /\ pc'[t] # "pv_update"
    /\ lastOutcome' \in {"stored", "hook_error"}

\* C11: a well-formed message passes the parse step, and what reaches the
\* store for it is the trimmed text after its first '=' (further '='
\* included) under the trimmed text before its first '='.
C11_SplitAtFirstEquals ==
    [][\A t \in Threads :
          /\ (ParseStep(t) /\ ~MalformedFirstEquals(msg[t])) => pc'[t] = "pv_conv"
          /\ StoreStep(t) =>
                LET m == msg[t]
                    i == FirstEquals(m)
                IN  store'[Trim(SubSeq(m, 1, i - 1))] = Trim(SubSeq(m, i + 1, Len(m)))]_vars

\* The message "a==" has been stored: path "a", value "=".
C11_Witness == store[<<"a">>] = <<EQ>> /\ lastOutcome = "stored"

\* Thread t's conversion step ends the processing of its message.
ConvertFails(t) ==
    /\ pc[t] = "pv_conv"
    /\ pc'[t] \notin {"pv_conv", "pv_update"}

\* The drop of thread t's message in the conversion step counts one error
\* and leaves the thread running; nothing else changes: not the other
\* counters, the store, the hook's calls, the emulator's flags, the
\* listener or the connection.
DropsAndGoesOn(t) ==
    /\ pc'[t] = Return(t)
    /\ mConversionErrors' = mConversionErrors + 1
    /\ UNCHANGED <<mMessagesProcessed, mMessagesConverted, store, notified>>
    /\ UNCHANGED <<mActive, mInitialized, mVssConverter, mSocketComm>>
    /\ UNCHANGED <<mRunning, mHasActiveConnection, mClientSocket, mServerSocket,
                   serverOpen, cst>>

\* C12: a well-formed message whose path has no rule is dropped in the
\* conversion step with one error counted (the emulator's error counter is
\* the one that counts unknown signals), no store entry changed, no
\* notification, and the emulator, the listener and the connection left as
\* they were for the next message.
C12_UnknownSignalDropped ==
    [][\A t \in Threads :
          (ConvertFails(t) /\ PathOf(msg[t]) \notin KnownPaths) => DropsAndGoesOn(t)]_vars

\* After the unknown signal "aa=1" was counted, "a=1" has been stored.
C12_Witness ==
    /\ script = <<"a", "a", EQ, "1", NL, "a", EQ, "1", NL>>
    /\ mMessagesProcessed = 2
    /\ mConversionErrors = 1
    /\ mMessagesConverted = 1
    /\ store[<<"a">>] = <<"1">>

\* C13: a conversion that fails for a known signal, by returning false or
\* by throwing, counts exactly one error, changes neither the store nor
\* the hook's calls, and leaves the thread running for the next message.
C13_ConversionErrorDropped ==
    [][\A t \in Threads :
          (ConvertFails(t) /\ PathOf(msg[t]) \in KnownPaths) => DropsAndGoesOn(t)]_vars

\* After "1=a" failed to convert, "1=1" has been stored.
C13_Witness ==
    /\ script = <<"1", EQ, "a", NL, "1", EQ, "1", NL>>
    /\ mMessagesProcessed = 2
    /\ mConversionErrors = 1
    /\ mMessagesConverted = 1
    /\ store[<<"1">>] = <<"1">>

\* The hook is called once in this step, with the value of thread t's
\* message under its path.
NotifiesOnce(t) ==
    notified' = Append(notified, [path |-> PathOf(msg[t]), value |-> ValueOf(msg[t])])

\* A call of the hook happens only in the step of the read thread that
\* stored the value, so before the thread reads its next record.
NotifiedOnlyOnStore ==
    notified' # notified => (StoreStep("reader") /\ forwarded' = forwarded)

\* C14 as stated: every successful store update comes with exactly one
\* call of the hook carrying the value, on the thread that stored it, and
\* the hook is never called for a message whose store update failed.
C14_AsClaimed ==
    [][/\ \A t \in Threads : StoreStep(t) => NotifiesOnce(t)
       /\ NotifiedOnlyOnStore]_vars

\* C14: with a hook installed (mHal not null) every successful store
\* update comes with exactly one call of the hook carrying the value, on
\* the thread that stored it; with none installed the value is stored
\* without any call; the hook is never called for a message whose store
\* update failed.
C14_NotifiedWhenInstalled ==
    [][/\ \A t \in Threads :
             StoreStep(t) =>
                /\ store'[PathOf(msg[t])] = ValueOf(msg[t])
                /\ IF mHal = "set" THEN NotifiesOnce(t) ELSE notified' = notified
       /\ NotifiedOnlyOnStore]_vars

\* Two values were stored for the same signal and the hook was called for
\* each, in their order.
C14_Witness ==
    /\ mHal = "set"
    /\ notified = <<[path |-> <<"a">>, value |-> <<"1">>],
                    [path |-> <<"a">>, value |-> <<"a">>]>>
    /\ store[<<"a">>] = <<"a">>

\* C15: no step (of processing, of shutdown() or of a later initialize())
\* decreases the received, the converted or the errored counter.
C15_CountersNeverDecrease ==
    [][/\ mMessagesProcessed' >= mMessagesProcessed
       /\ mMessagesConverted' >= mMessagesConverted
       /\ mConversionErrors' >= mConversionErrors]_vars

\* initialize() is about to succeed again after a shutdown(), with
\* messages counted before the shutdown.
C15_Witness ==
    /\ pc["caller"] = "in_fin"
    /\ stops = 1
    /\ mMessagesProcessed > 0

\* Thread t's message fails: malformed in the parse step, or an unknown
\* signal or a conversion error in the conversion step.
MessageFails(t) ==
    /\ pc[t] \in {"pv_parse", "pv_conv"}
    /\ pc'[t] = Return(t)

\* The streams of StoreScripts whose first record fails and whose second
\* record is valid.
FailThenValid ==
    {<<"a", NL, "a", EQ, "1", NL>>,
     <<"a", "a", EQ, "1", NL, "a", EQ, "1", NL>>,
     <<"1", EQ, "a", NL, "1", EQ, "1", NL>>}

\* The whole stream of connection 1 has been received and the read thread
\* waits for more.
StreamDone ==
    /\ rcvd[1] = Len(script)
    /\ pc["reader"] = "rm2"
    /\ rfd = 1

\* C16: a failed message changes no store entry, calls no hook and leaves
\* the connection open and the listener running; and once a stream made of
\* a failed record and a valid one has been received, the valid record has
\* been processed up to the store, as it is when sent alone.
C16_FailureIsolated ==
    /\ [][\A t \in Threads :
             MessageFails(t) =>
                /\ UNCHANGED <<store, notified, mMessagesConverted>>
                /\ UNCHANGED <<mRunning, mHasActiveConnection, mClientSocket,
                               mServerSocket, serverOpen, cst>>]_vars
    /\ []((script \in FailThenValid /\ StreamDone) =>
             (mMessagesProcessed = 2
              /\ lastOutcome \in {"stored", "store_error", "hook_error"}))

\* The stream of StoreScripts with two valid records for the signal "a".
TwoValid == <<"a", EQ, "1", NL, "a", EQ, "a", NL>>

\* C17: the read thread takes a record from the framer only when it holds
\* none, and that record is the one it processes next; a store update of
\* the read thread is for the record forwarded last and comes before any
\* further record is forwarded; so of two values for one signal the one
\* that arrived later is the one in the store.
C17_StoredInArrivalOrder ==
    /\ [][/\ forwarded' # forwarded =>
                /\ msg["reader"] = << >>
                /\ Len(forwarded') = Len(forwarded) + 1
                /\ msg'["reader"] = forwarded'[Len(forwarded')].rec
          /\ StoreStep("reader") =>
                /\ forwarded # << >>
                /\ msg["reader"] = forwarded[Len(forwarded)].rec
                /\ forwarded' = forwarded]_vars
    /\ []((script = TwoValid /\ mMessagesConverted = 2) => store[<<"a">>] = <<"a">>)

\* Both records of the stream "a=1", "a=a" have been stored.
C17_Witness ==
    /\ script = TwoValid
    /\ StreamDone
    /\ mMessagesConverted = 2
    /\ Len(forwarded) = 2

\* C18: a listener runs, the emulator is active or initialized, and a
\* message is counted, only with a converter whose initialize() succeeded;
\* an initialize() in which it failed has returned false, with no listener
\* started and the emulator inactive.
C18_ConverterBeforeListener ==
    /\ []((mRunning \/ pc["reader"] # "none" \/ mActive \/ mInitialized)
             => mVssConverter = "alive")
    /\ []((pc["caller"] = "idle" /\ lastCall = "initialize" /\ mVssConverter = "uninit")
             => (~lastRet /\ ~serverOpen))
    /\ [][mMessagesProcessed' # mMessagesProcessed => mVssConverter = "alive"]_vars

\* initialize() has returned false because the converter's initialize()
\* failed.
C18_Witness ==
    /\ pc["caller"] = "idle"
    /\ lastCall = "initialize"
    /\ ~lastRet
    /\ mVssConverter = "uninit"

\* A step of the reader thread in which acceptConnection() fails, or in
\* which the loop sleeps after the failure.
AcceptFailureStep ==
    /\ pc'["reader"] # pc["reader"]
    /\ \/ pc["reader"] \in {"acc1", "acc2"} /\ pc'["reader"] = "sleep"
       \/ pc["reader"] = "sleep"

\* C19: a failed accept leaves the listener running, its listening socket
\* open and the reader on its way to the next attempt, without bound; and a
\* peer that connects while the listener runs with no peer is accepted
\* (unless the listener is stopped first).
C19_AcceptRetried ==
    /\ [][AcceptFailureStep =>
             /\ mRunning' = mRunning
             /\ serverOpen' = serverOpen
             /\ mServerSocket' = mServerSocket
             /\ pc'["reader"] \in {"sleep", "loop"}]_vars
    /\ \A c \in Conns :
           (mRunning /\ Accepted = {} /\ cst[c] = "queued")
               ~> (cst[c] = "open" \/ ~mRunning)

\* r is the right-trimmed text of a piece of the peer's stream that holds no
\* line terminator and is directly followed by one.
Terminated(r) ==
    \E i \in 1..Len(script) : \E j \in (i - 1)..(Len(script) - 1) :
        /\ script[j + 1] = NL
        /\ \A k \in i..j : script[k] # NL
        /\ r = TrimRight(SubSeq(script, i, j))

\* The number of line terminators among the first n bytes of the stream.
Terminators(n) == Cardinality({k \in 1..n : script[k] = NL})

\* readMessage() returns "" while bytes without a terminator are buffered
\* (the loop condition failed, or the connection was lost).
DiscardStep ==
    /\ rbuf # << >>
    /\ pc["reader"] \in {"rm1", "lost3"}
    /\ pc'["reader"] = "loop"

\* C20: every forwarded record is text of the stream that a line terminator
\* follows, and no more messages are counted than terminators were
\* received; a partial record buffered when the peer disconnects, a read
\* fails or the listener is stopped is dropped: nothing is forwarded and no
\* counter, stored value or notification changes.
C20_PartialRecordDiscarded ==
    /\ [](\A k \in 1..Len(forwarded) : Terminated(forwarded[k].rec))
    /\ [](Len(forwarded) <= Terminators(rcvd[1]))
    /\ [](mMessagesProcessed <= Len(forwarded))
    /\ [][DiscardStep =>
             /\ rbuf' = << >>
             /\ forwarded' = forwarded
             /\ UNCHANGED <<msg, statVars, store, notified>>]_vars

\* The peer sent an unterminated record and is gone; the listener, still
\* running, read all of it, handled the loss and forwarded nothing.
C20_Witness ==
    /\ script = <<"a", EQ, "1">>
    /\ rcvd[1] = Len(script)
    /\ peerEnd[1] \in {"fin", "rst"}
    /\ cst[1] = "closed"
    /\ mRunning
    /\ mActive
    /\ pc["reader"] = "loop"
    /\ rbuf = << >>
    /\ forwarded = << >>
    /\ mMessagesProcessed = 0

\* The reader thread's step that takes received bytes into readMessage's
\* buffer, and the buffer with those bytes appended.
TakesBytes == pc["reader"] = "rm2" /\ rfd \in Conns /\ rcvd'[rfd] > rcvd[rfd]

Taken == rbuf \o SubSeq(script, rcvd[rfd] + 1, rcvd'[rfd])

\* r is line without its trailing spaces, tabs, carriage returns and
\* newlines.
Stripped(r, line) ==
    /\ IsPrefix(r, line)
    /\ \A i \in (Len(r) + 1)..Len(line) : line[i] \in Whitespace
    /\ (r # << >> => r[Len(r)] \notin Whitespace)

\* C21: a forwarded record is the text before the first line terminator of
\* the buffer without its trailing whitespace and is never empty; when that
\* text is empty or all whitespace nothing is forwarded, nothing reaches
\* the processor and no counter changes.
C21_TrimmedOrDropped ==
    /\ [](\A k \in 1..Len(forwarded) :
             /\ forwarded[k].rec # << >>
             /\ forwarded[k].rec[Len(forwarded[k].rec)] \notin Whitespace)
    /\ [](mMessagesProcessed <= Len(forwarded)
             /\ mMessagesConverted + mConversionErrors <= Len(forwarded))
    /\ [][(TakesBytes /\ Find(Taken, NL) > 0) =>
             LET line == SubSeq(Taken, 1, Find(Taken, NL) - 1)
             IN  IF \A i \in 1..Len(line) : line[i] \in Whitespace
                 THEN /\ forwarded' = forwarded
                      /\ pc'["reader"] = "rm1"
                      /\ UNCHANGED <<msg, statVars, storeVars>>
                 ELSE /\ Len(forwarded') = Len(forwarded) + 1
                      /\ Stripped(forwarded'[Len(forwarded')].rec, line)
                      /\ msg'["reader"] = forwarded'[Len(forwarded')].rec]_vars

\* After a record of whitespace only, which was dropped, the record
\* "a=1\r" was forwarded as "a=1" and processed.
C21_Witness ==
    /\ script = <<SP, NL, "a", EQ, "1", "\r", NL>>
    /\ rcvd[1] = Len(script)
    /\ forwarded = <<[conn |-> 1, rec |-> <<"a", EQ, "1">>]>>
    /\ mMessagesProcessed = 1
    /\ mMessagesConverted = 1

\* Thread t takes the conversion step of processVssMessage.
ConvertStep(t) == pc[t] = "pv_conv" /\ pc'[t] # "pv_conv"

\* The paths with numeric rules that scale and bound.
FloatRulePaths == {VehicleSpeed, CabinTemperature}

\* scale and clamp as the specification defines them, for rule r.
ScaleOf(r, x) == (x * r.unit_multiplier) \div 10 + r.unit_offset

ClampOf(r, x) ==
    IF x < r.min_value THEN r.min_value
    ELSE IF x > r.max_value THEN r.max_value
    ELSE x

\* C22: what is stored for a message of a numeric rule is
\* clamp(scale(parse(raw))), the multiplier applied first, then the offset,
\* then the bounds; with multiplier 3.6 and bounds 0 and 300 the input
\* "100" gives 300, and with multiplier 1.8, offset 32 and bounds 0 and 100
\* the input "-10" gives 14.
C22_ScaleThenClamp ==
    [][\A t \in Threads :
          (StoreStep(t) /\ PathOf(msg[t]) \in FloatRulePaths) =>
              LET path == PathOf(msg[t])
                  x == stringToFloat(ValueOf(msg[t])).value
              IN  /\ store'[path] = <<ClampOf(Rule(path), ScaleOf(Rule(path), x))>>
                  /\ (msg[t] = Message(VehicleSpeed, <<"1", "0", "0">>)
                         => store'[path] = <<300000>>)
                  /\ (msg[t] = Message(CabinTemperature, <<"-", "1", "0">>)
                         => store'[path] = <<14000>>)]_vars

\* Vehicle.Speed holds the upper bound 300 (no input scales to exactly
\* 300) and Cabin.Temperature holds 14, which only "-10" gives.
C22_Witness ==
    /\ store[VehicleSpeed] = <<300000>>
    /\ store[CabinTemperature] = <<14000>>
    /\ mMessagesConverted = 2

\* C23: a numeric text never fails the conversion, whatever its value; when
\* the store takes the update, a scaled value below the minimum is stored
\* as the minimum, one above the maximum as the maximum and one inside the
\* bounds as it is, and the message is counted as converted, not as an
\* error.
C23_ClampAndContinue ==
    [][\A t \in Threads :
          LET path == PathOf(msg[t])
              scaled == ScaleOf(Rule(path), stringToFloat(ValueOf(msg[t])).value)
          IN  /\ (ConvertStep(t) /\ path \in FloatRulePaths
                      /\ isFloatString(ValueOf(msg[t])))
                    => /\ pc'[t] = "pv_update"
                       /\ UNCHANGED <<statVars, store, notified>>
              /\ (StoreStep(t) /\ path \in FloatRulePaths /\ lastOutcome' = "stored")
                    => /\ scaled < Rule(path).min_value
                             => store'[path] = <<Rule(path).min_value>>
                       /\ scaled > Rule(path).max_value
                             => store'[path] = <<Rule(path).max_value>>
                       /\ (scaled >= Rule(path).min_value
                               /\ scaled <= Rule(path).max_value)
                             => store'[path] = <<scaled>>
                       /\ mMessagesConverted' = mMessagesConverted + 1
                       /\ mConversionErrors' = mConversionErrors]_vars

\* Vehicle.Speed holds its lower bound, which only negative inputs give, and
\* Cabin.Temperature its upper bound; both messages count as converted.
C23_Witness ==
    /\ store[VehicleSpeed] = <<0>>
    /\ store[CabinTemperature] = <<100000>>
    /\ mMessagesConverted = 2
    /\ mConversionErrors = 0

\* The upper-case form of a letter of the boolean literals.
UpperOf(c) ==
    CASE c = "t" -> "T" [] c = "r" -> "R" [] c = "u" -> "U" [] c = "e" -> "E"
      [] c = "f" -> "F" [] c = "a" -> "A" [] c = "l" -> "L" [] c = "s" -> "S"
      [] c = "y" -> "Y" [] c = "o" -> "O" [] c = "n" -> "N"
      [] OTHER -> c

\* v spells the literal, in any mix of cases.
SpelledAs(v, literal) ==
    /\ Len(v) = Len(literal)
    /\ \A i \in 1..Len(v) : v[i] \in {literal[i], UpperOf(literal[i])}

TrueLiterals == {<<"t", "r", "u", "e">>, <<"1">>, <<"y", "e", "s">>, <<"o", "n">>}
FalseLiterals == {<<"f", "a", "l", "s", "e">>, <<"0">>, <<"n", "o">>, <<"o", "f", "f">>}

IsTrueText(v) == \E literal \in TrueLiterals : SpelledAs(v, literal)
IsFalseText(v) == \E literal \in FalseLiterals : SpelledAs(v, literal)

\* C24: for the boolean rule, a value that spells true, 1, yes or on in any
\* case is stored as true and one that spells false, 0, no or off as false;
\* every other value is a conversion error that stores nothing ("Yes" is
\* true, "0" is false, "maybe" is an error).
C24_BooleanLiterals ==
    /\ [](store[DoorIsOpen] \in {<< >>, <<TRUE>>, <<FALSE>>})
    /\ [][\A t \in Threads :
             LET v == ValueOf(msg[t])
             IN  /\ (ConvertStep(t) /\ PathOf(msg[t]) = DoorIsOpen)
                       => IF IsTrueText(v) \/ IsFalseText(v)
                          THEN pc'[t] = "pv_update"
                          ELSE DropsAndGoesOn(t)
                 /\ (ConvertStep(t) /\ msg[t] = Message(DoorIsOpen, <<"m", "a", "y", "b", "e">>))
                       => DropsAndGoesOn(t)
                 /\ (StoreStep(t) /\ PathOf(msg[t]) = DoorIsOpen)
                       => /\ IsTrueText(v) \/ IsFalseText(v)
                          /\ store'[DoorIsOpen] = <<IsTrueText(v)>>
                 /\ (StoreStep(t) /\ msg[t] = Message(DoorIsOpen, <<"Y", "e", "s">>))
                       => store'[DoorIsOpen] = <<TRUE>>
                 /\ (StoreStep(t) /\ msg[t] = Message(DoorIsOpen, <<"0">>))
                       => store'[DoorIsOpen] = <<FALSE>>]_vars

\* A literal of false was stored and then a value that is no literal was
\* rejected.
C24_Witness ==
    /\ store[DoorIsOpen] = <<FALSE>>
    /\ lastOutcome = "conversion_error"
    /\ mMessagesConverted = 1
    /\ mConversionErrors = 1

\* The integer texts of the specification whose value is outside the
\* 32-bit range, and those outside the 64-bit range.
Overflow64 ==
    {<<"9", "2", "2", "3", "3", "7", "2", "0", "3", "6", "8", "5", "4", "7", "7", "5", "8", "0", "8">>,
     <<"-", "9", "2", "2", "3", "3", "7", "2", "0", "3", "6", "8", "5", "4", "7", "7", "5", "8", "0", "9">>,
     <<"1", "8", "4", "4", "6", "7", "4", "4", "0", "7", "3", "7", "0", "9", "5", "5", "1", "6", "1", "7">>}

Overflow32 ==
    Overflow64 \cup
    {<<"2", "1", "4", "7", "4", "8", "3", "6", "4", "8">>,
     <<"-", "2", "1", "4", "7", "4", "8", "3", "6", "4", "9">>,
     <<"4", "2", "9", "4", "9", "6", "7", "2", "9", "7">>,
     <<"9", "2", "2", "3", "3", "7", "2", "0", "3", "6", "8", "5", "4", "7", "7", "5", "8", "0", "7">>,
     <<"-", "9", "2", "2", "3", "3", "7", "2", "0", "3", "6", "8", "5", "4", "7", "7", "5", "8", "0", "8">>}

\* The values of the texts inside the 32-bit range.
Int32Of(v) ==
    CASE v = <<"0">> -> 0
      [] v = <<"1">> -> 1
      [] v = <<"-", "1">> -> 0 - 1
      [] v = <<"0", "0", "7">> -> 7
      [] v = <<"0", "0", "0", "0", "0", "0", "0", "0", "0", "0", "0", "0", "1">> -> 1
      [] v = <<"2", "1", "4", "7", "4", "8", "3", "6", "4", "7">> -> 2147483647
      [] v = <<"-", "2", "1", "4", "7", "4", "8", "3", "6", "4", "8">> -> 0 - 2147483647 - 1

\* C25: for the Int32 and the Int64 rule, a decimal integer whose value is
\* outside the rule's width is a conversion error: one error is counted
\* and no store entry changes; what is stored for a text inside the width
\* is its value, so never an input reduced modulo 2^32 or 2^64.
C25_OverflowIsAnError ==
    [][\A t \in Threads :
          LET v == ValueOf(msg[t])
          IN  /\ (ConvertStep(t) /\ PathOf(msg[t]) = Int32Path /\ v \in Overflow32)
                    => DropsAndGoesOn(t)
              /\ (ConvertStep(t) /\ PathOf(msg[t]) = Int64Path /\ v \in Overflow64)
                    => DropsAndGoesOn(t)
              /\ (StoreStep(t) /\ PathOf(msg[t]) = Int32Path)
                    => /\ v \notin Overflow32
                       /\ store'[Int32Path] = <<Int32Of(v)>>
              /\ (StoreStep(t) /\ PathOf(msg[t]) = Int64Path)
                    => /\ v \notin Overflow64
                       /\ (v = <<"9", "2", "2", "3", "3", "7", "2", "0", "3", "6", "8", "5", "4", "7", "7", "5", "8", "0", "7">> => store'[Int64Path]
                               = <<[neg |-> FALSE, digits |-> <<"9", "2", "2", "3", "3", "7", "2", "0", "3", "6", "8", "5", "4", "7", "7", "5", "8", "0", "7">>]>>)]_vars

\* INT32_MAX was stored for the Int32 rule and a text beyond the width of
\* its rule was rejected (every text of this specification is an integer).
C25_Witness ==
    /\ store[Int32Path] = <<2147483647>>
    /\ store[Int64Path] = << >>
    /\ lastOutcome = "conversion_error"
    /\ mMessagesConverted = 1
    /\ mConversionErrors = 1

\* C26: a read of a store entry returns the fields of one write: both of
\* the last completed write, or both of the write that is going on, never
\* one field of each.
C26_NoTornRead ==
    [][\A c \in Clients :
          (access.get[c] = "unlock" /\ access'.get[c] = "idle") =>
              /\ access.got[c].value = access.got[c].timestamp
              /\ access.got[c].value \in {access.writes - 1, access.writes}]_vars

\* The third write has replaced one field of the entry and not yet the
\* other; a read that began after the second write has returned the second
\* write's fields.
C26_Witness ==
    /\ entry = [value |-> 3, timestamp |-> 2]
    /\ mLock = "writer"
    /\ access.get["client1"] = "idle"
    /\ access.got["client1"] = [value |-> 2, timestamp |-> 2]
    /\ access.got["client2"] = [value |-> 1, timestamp |-> 1]

\* The record "Vehicle.Speed=33.33\n" without its terminator.
SpeedMessage == VehicleSpeed \o <<EQ, "3", "3", ".", "3", "3">>

\* The read thread is between messages.
BetweenMessages == pc["reader"] \notin {"pv_active", "pv_parse", "pv_conv", "pv_update"}

Counting(t) == pc[t] \in {"pv_parse", "pv_conv", "pv_update"}

\* C28: a message that passed the isActive() test is counted as received
\* in the step after the test, and as converted or as errored, one of the
\* two and once, in the step in which processVssMessage returns, whether the
\* parse, the conversion, the store or the hook failed or threw or all
\* succeeded; no other step moves a counter; so whenever the read thread is
\* between messages, received = converted + errored.
C28_CountersBalance ==
    /\ [](BetweenMessages
             => mMessagesProcessed = mMessagesConverted + mConversionErrors)
    /\ [][/\ \A t \in Threads :
                /\ (pc[t] = "pv_parse" /\ pc'[t] # "pv_parse")
                      => mMessagesProcessed' = mMessagesProcessed + 1
                /\ (Counting(t) /\ pc'[t] = Return(t))
                      => \/ /\ mMessagesConverted' = mMessagesConverted + 1
                            /\ mConversionErrors' = mConversionErrors
                         \/ /\ mConversionErrors' = mConversionErrors + 1
                            /\ mMessagesConverted' = mMessagesConverted
          /\ mMessagesProcessed' # mMessagesProcessed
                => \E t \in Threads : pc[t] = "pv_parse" /\ pc'[t] # "pv_parse"
          /\ <<mMessagesConverted, mConversionErrors>>' # <<mMessagesConverted, mConversionErrors>>
                => \E t \in Threads : Counting(t) /\ pc'[t] = Return(t)]_vars

\* The read thread waits for more after two records: one was dropped by the
\* parser and one was refused by the store or the hook.
C28_Witness ==
    /\ script = <<"a", NL, "a", EQ, "1", NL>>
    /\ pc["reader"] = "rm2"
    /\ mMessagesProcessed = 2
    /\ mConversionErrors = 2
    /\ mMessagesConverted = 0

\* C29: when stop() has returned (the read thread joined) there is no
\* active connection: mHasActiveConnection is false, mClientSocket is -1
\* and no accepted socket is open; and a record is never read from a socket
\* that was accepted before the last stop().
C29_NoConnectionAfterStop ==
    /\ []((pc["caller"] = "idle" /\ ~mRunning /\ pc["reader"] = "none") =>
             /\ ~mHasActiveConnection
             /\ mClientSocket = -1
             /\ Accepted = {})
    /\ [][(pc["caller"] = "idle" /\ ~mRunning /\ mRunning')
             => (~mHasActiveConnection' /\ Accepted = {})]_vars

\* A thread calls close(mClientSocket): stop()'s closeSocket(), or the read
\* thread after recv returned 0 or failed.
ClientCloseStep ==
    \/ pc["caller"] = "cs2" /\ pc'["caller"] = "cs3"
    \/ pc["reader"] = "lost2" /\ pc'["reader"] = "lost3"

\* C30: an accepted descriptor is passed to close once: whenever a thread
\* calls close(mClientSocket) with the descriptor of an accepted socket,
\* that socket is still open.
C30_ClosedOnce ==
    [][(ClientCloseStep /\ mClientSocket \in Conns) => cst[mClientSocket] = "open"]_vars

\* Thread t's isActive() test in processVssMessage finds the emulator not
\* active.
IgnoredStep(t) ==
    /\ pc[t] = "pv_active"
    /\ pc'[t] # "pv_active"
    /\ ~(mActive /\ mInitialized)

\* C31: a message whose isActive() test finds the emulator not active is
\* ignored: processVssMessage returns at once, no counter changes, the
\* converter is not called and neither the store nor the hook's calls
\* change; and a counter moves only in a step of a message that passed the
\* test.
C31_IgnoredWhenInactive ==
    [][/\ \A t \in Threads :
             IgnoredStep(t) =>
                /\ pc'[t] = Return(t)
                /\ UNCHANGED <<mMessagesProcessed, mMessagesConverted, mConversionErrors>>
                /\ UNCHANGED <<store, notified, usedReleased>>
       /\ <<mMessagesProcessed, mMessagesConverted, mConversionErrors, store>>'
              # <<mMessagesProcessed, mMessagesConverted, mConversionErrors, store>>
             => \E t \in Threads : Counting(t)]_vars

\* A first message was stored while the emulator was active; after
\* shutdown() a second one has been ignored.
C31_Witness ==
    /\ lastOutcome = "inactive"
    /\ lastCall = "shutdown"
    /\ pc["caller"] = "idle"
    /\ calls = 2
    /\ mMessagesProcessed = 1
    /\ mMessagesConverted = 1
    /\ ~mActive

\* Thread t's update step ends with doSetProperty returning a status other
\* than OK or throwing.
RejectedStep(t) ==
    /\ pc[t] = "pv_update"
    /\ pc'[t] # "pv_update"
    /\ lastOutcome' = "store_error"

\* C32: when the store rejects an update, by a status other than OK or by
\* an exception, the message counts as one error, the received and the
\* converted counter stay, the store entry stays and the hook is not
\* called; processVssMessage returns and the thread goes on.
C32_RejectedUpdateIsAnError ==
    [][\A t \in Threads :
          RejectedStep(t) =>
             /\ mConversionErrors' = mConversionErrors + 1
             /\ UNCHANGED <<mMessagesProcessed, mMessagesConverted>>
             /\ UNCHANGED <<store, notified>>
             /\ pc'[t] = Return(t)]_vars

\* With a hook installed, the store has rejected the only valid record of
\* the stream: one error more, nothing stored, no call of the hook.
C32_Witness ==
    /\ script = <<"a", NL, "a", EQ, "1", NL>>
    /\ mHal = "set"
    /\ lastOutcome = "store_error"
    /\ mMessagesProcessed = 2
    /\ mConversionErrors = 2
    /\ mMessagesConverted = 0
    /\ notified = << >>
    /\ store[<<"a">>] = << >>

\* start() or stop() is called in this step.
StartCalled == starts' = starts + 1
StopCalled == stops' = stops + 1

\* What a call of start() or stop() may change besides the record of the
\* call itself.
ListenerState == <<pc, msg, listenerVars, kernelVars, script, timeouts, forwarded>>

\* C33: start() on a running listener returns true and changes nothing: no
\* socket is set up, no thread is created and the peer connection stays as
\* it is; stop() on a listener that is not running returns at once and
\* changes nothing.
C33_RepeatedCallsDoNothing ==
    [][/\ (StartCalled /\ mRunning) => (lastRet' /\ UNCHANGED ListenerState)
       /\ (StopCalled /\ ~mRunning)
             => (pc'["caller"] = "idle" /\ UNCHANGED ListenerState)]_vars

\* After one start(), which succeeded, stop() has been called twice and has
\* returned: one of the two calls found the listener not running.
C33_Witness ==
    /\ pc["caller"] = "idle"
    /\ starts = 1
    /\ stops = 2
    /\ lastCall = "stop"
    /\ lastRet
    /\ ~mRunning

\* What isActive() returns.
isActive == mActive /\ mInitialized

\* initialize() is called in this step.
InitializeCalled == pc["caller"] = "idle" /\ starts' = starts + 1

\* C34: between calls, isActive() is true exactly when the last of the
\* calls of initialize() and shutdown() was an initialize() that returned
\* true, and inside a call it is false unless the call is a repeated
\* initialize(); an initialize() on an initialized emulator returns true
\* and leaves the listener and its thread as they are; an initialize() that
\* goes on after the listener's start has a running listener without a
\* connection and a read thread at the head of its loop.
C34_ActiveBetweenInitializeAndShutdown ==
    /\ [](pc["caller"] = "idle"
             => (isActive <=> (lastCall = "initialize" /\ lastRet)))
    /\ [](pc["caller"] # "idle" => ~isActive)
    /\ [][/\ (InitializeCalled /\ mInitialized)
                => (lastRet' /\ isActive' /\ UNCHANGED ListenerState)
          /\ (InitializeCalled /\ ~mInitialized)
                => /\ pc["reader"] = "none"
                   /\ pc'["caller"] = "in_fin"
                         => /\ mRunning' /\ serverOpen'
                            /\ ~mHasActiveConnection' /\ mClientSocket' = -1
                            /\ pc'["reader"] = "loop"]_vars

\* The emulator is active again after initialize(), shutdown(), initialize():
\* the shutdown() closed the socket of a peer that is still up.
C34_Witness ==
    /\ pc["caller"] = "idle"
    /\ starts = 2
    /\ stops = 1
    /\ lastCall = "initialize"
    /\ lastRet
    /\ isActive
    /\ mRunning
    /\ cst[1] = "closed"
    /\ peerEnd[1] = "up"

\* C35: the read thread never finds the emulator not active: while
\* initialize() is executing its isActive() test waits, and when the test
\* is passed initialize() has returned, the emulator is active and its
\* converter is there; so a record that arrived during initialize() is
\* neither dropped as not active nor processed before initialize() is done.
C35_WaitsForInitialize ==
    [][/\ ~IgnoredStep("reader")
       /\ (pc["caller"] = "in_fin" /\ pc["reader"] = "pv_active")
             => (pc'["reader"] = "pv_active" /\ msg'["reader"] = msg["reader"])
       /\ (pc["reader"] = "pv_active" /\ pc'["reader"] # "pv_active")
             => /\ pc'["reader"] = "pv_parse"
                /\ isActive
                /\ mVssConverter = "alive"
                /\ pc["caller"] # "in_fin"]_vars

\* initialize() has started the listener and not yet returned; a peer has
\* connected and sent "a=1" and the read thread holds the record at its
\* isActive() test.
C35_Witness ==
    /\ pc["caller"] = "in_fin"
    /\ pc["reader"] = "pv_active"
    /\ msg["reader"] = <<"a", EQ, "1">>
    /\ ~mInitialized

\* recv returns to the read thread without bytes and without the loss of
\* the peer.
TimeoutStep ==
    /\ pc["reader"] = "rm2"
    /\ pc'["reader"] = "rm1"
    /\ rcvd' = rcvd

\* C36: a receive timeout changes neither the connection (flag, descriptor,
\* socket) nor the bytes held of a partial record nor what was forwarded;
\* the read thread gives a connection up only when its peer has closed or
\* reset it and nothing it sent is left to receive;
\* while the read thread is in readMessage on an open connection whose
\* record has not arrived whole, it holds every byte received so far; and
\* every record forwarded is the record as the peer sent it.
C36_TimeoutKeepsPartialRecord ==
    /\ [][TimeoutStep
             => UNCHANGED <<mRunning, mHasActiveConnection, mClientSocket, cst, rbuf,
                            forwarded>>]_vars
    /\ [][(mHasActiveConnection /\ ~mHasActiveConnection')
             => (rfd \in Conns /\ peerEnd[rfd] # "up" /\ sent[rfd] = rcvd[rfd])]_vars
    /\ [](\A c \in Conns :
             (pc["reader"] \in {"rm1", "rm2"} /\ mClientSocket = c /\ cst[c] = "open"
                  /\ rcvd[c] < Len(script))
                 => (mHasActiveConnection /\ rbuf = SubSeq(script, 1, rcvd[c])))
    /\ [](\A i \in 1..Len(forwarded) : forwarded[i].rec \o <<NL>> = script)

\* The first peer's record has been forwarded whole after the read thread
\* timed out MaxTimeouts times with a part of it held; no other peer has
\* sent anything.
C36_Witness ==
    /\ timeouts = MaxTimeouts
    /\ forwarded = <<[conn |-> 1, rec |-> SpeedMessage]>>
    /\ sent[2] = 0
    /\ peerEnd[1] = "up"
    /\ mHasActiveConnection

\* r is the right-trimmed text of a whole line among the first n bytes of
\* the stream.
LineWithin(r, n) ==
    \E i \in 1..n : \E j \in (i - 1)..(n - 1) :
        /\ i = 1 \/ script[i - 1] = NL
        /\ script[j + 1] = NL
        /\ \A k \in i..j : script[k] # NL
        /\ r = TrimRight(SubSeq(script, i, j))

\* C37: when the read thread calls recv for the first time on a connection
\* it holds no bytes, whatever was held when the peer before was lost; and
\* the first record forwarded from a connection comes from the connection
\* the bytes were received on and is a whole line of the bytes received on
\* it.
C37_NoBytesAcrossPeers ==
    /\ []((pc["reader"] = "rm2" /\ rfd \in Conns /\ rcvd[rfd] = 0) => rbuf = << >>)
    /\ [][forwarded' # forwarded =>
             LET r == forwarded'[Len(forwarded')]
             IN  /\ r.conn = rfd
                 /\ r.conn = mClientSocket
                 /\ (\A i \in 1..Len(forwarded) : forwarded[i].conn # r.conn)
                        => LineWithin(r.rec, rcvd'[r.conn])]_vars

\* The first peer was lost after a part of its record was received and
\* dropped with it; the record of the second peer has been forwarded as
\* that peer sent it.
C37_Witness ==
    /\ rcvd[1] \in 1..(Len(script) - 1)
    /\ sent[1] = rcvd[1]
    /\ peerEnd[1] \in {"fin", "rst"}
    /\ cst[1] = "closed"
    /\ forwarded = <<[conn |-> 2, rec |-> SpeedMessage]>>

====
